---- MODULE Spec2Model ----
(***************************************************************************)
(* State-machine model of the AI tutor session runtime:                    *)
(*   - the background session analyzer and its claim protocol              *)
(*     (services/session_tasks.py),                                        *)
(*   - the whiteboard CRDT channel (routers/whiteboard_ws.py),              *)
(*   - the chat runtime: persistence of turns and the lean executor turn   *)
(*     (routers/tutor_ws.py).                                              *)
(* Each subsystem has its own specification over the shared variables.     *)
(***************************************************************************)
EXTENDS Integers, Sequences, FiniteSets, TLC

(* ------------------------------ bounds --------------------------------- *)
MaxWorkers == 2
MaxConns == 2        \* whiteboard websockets of the session
MaxDocs == 2         \* _SessionDoc objects ever created for the session
MaxUpdates == 2      \* Yjs updates received over the whiteboard channel
MaxKeys == 2         \* object ids written by the clients
MaxChatConns == 2    \* tutor websockets (tabs, reconnects) of the session
MaxTurnNo == 2       \* largest turn_no the runs insert
MaxTurns == 2        \* executor turns of one run
MaxUMCalls == 3      \* calls of update_user_model
MaxTemp0 == 10       \* largest temperature (in tenths) a caller passes
TickSeconds == 10    \* granularity of the clock of the get_board_state wait
NumOptions == 2      \* options of the pending quiz question
MaxGCSessions == 2   \* sessions whose whiteboard document can be in _docs
MaxEphKeys == 2      \* keys of the "ephemeral" map
MaxNow == 2          \* largest clock value (and largest expiresAt)
GridCols == 2        \* cols of the session's _GridAllocator
GridRows == 2        \* rows of the session's _GridAllocator
MaxRegions == 3      \* region ids handed out by reserve
MaxEphUpdates == 2   \* client updates of ephemeral maps
MaxPlannerRuns == 3  \* planner invocations followed in one connection
MaxLoopMsgs == 2     \* client messages received by the main loop

Workers == 1..MaxWorkers
Conns == 1..MaxConns
Docs == 1..MaxDocs
Keys == 1..MaxKeys
NoDoc == 0
NoConn == 0
ChatConns == 1..MaxChatConns
TutorConn == 1       \* the tutor websocket whose executor turns are followed
NoSnapshot == 0      \* whiteboard_snapshot_index is None

(* ---------------------------- variables -------------------------------- *)
VARIABLES
    \* --- sessions row + analyzer workers (session_tasks.py) ---
    analysis_status,   \* sessions.analysis_status: "null" | "processing" | "success" | "failed"
    ended_at,          \* sessions.ended_at has been set
    folder_known,      \* folder_id argument of the workers is not None
    kb_appends,        \* number of append_to_knowledge_base RPCs that succeeded
    wpc,               \* position of each queue_session_analysis task
    can_proceed,       \* the local flag can_proceed of each task
    has_summary,       \* analyze_session returned a text summary to the task
    ran_analysis,      \* the task called analyze_session
    set_ended,         \* the task issued the ended_at update
    final_written      \* final status the task wrote: "none" | "success" | "failed"

analyzerVars == <<analysis_status, ended_at, folder_known, kb_appends, wpc,
                  can_proceed, has_summary, ran_analysis, set_ended, final_written>>

VARIABLES
    \* --- whiteboard channel (whiteboard_ws.py) ---
    docs_reg,          \* _docs[session_key]: the registered _SessionDoc, or NoDoc
    next_doc,          \* identity of the next _SessionDoc() to be constructed
    conn_doc,          \* the local doc_wrapper of each websocket handler
    connections,       \* _SessionDoc.connections of each wrapper
    lock_holder,       \* _SessionDoc._lock: the handler inside "async with"
    lock_waiters,      \* FIFO queue of handlers waiting for _SessionDoc._lock
    ydoc,              \* "objects" map of each wrapper's YDoc: key -> metadata.source
    applied,           \* update ids applied to each wrapper's YDoc, in order
    received,          \* update ids in the order receive_bytes() returned them
    next_upd,          \* id of the next update to arrive
    redis,             \* the snapshot stored under yjs:snapshot:<session>
    cpc,               \* position of each whiteboard_stream handler
    cur,               \* update_bytes the handler is processing
    delivered,         \* update ids each client was sent by _broadcast
    cleanup_snap       \* snapshot encoded in the finally block before redis.set

wbVars == <<docs_reg, next_doc, conn_doc, connections, lock_holder, lock_waiters,
            ydoc, applied, received, next_upd, redis, cpc, cur, delivered,
            cleanup_snap>>

VARIABLES
    \* --- chat persistence (tutor_ws.py, Phase-1 persistence helpers) ---
    rows,                  \* session_messages rows of the session
    snapshots,             \* snapshot_index of the whiteboard_snapshots rows
    latest_turn_no,        \* ctx.latest_turn_no of each connection's TutorContext
    latest_snapshot_index, \* ctx.latest_snapshot_index of each connection
    ppc,                   \* "closed" | "open" | "asst_msg" (inside _persist_assistant_message)
    next_turn,             \* local next_turn of _persist_assistant_message
    snapshot_index_val     \* local snapshot_index_val of _persist_assistant_message

persistVars == <<rows, snapshots, latest_turn_no, latest_snapshot_index, ppc,
                 next_turn, snapshot_index_val>>

VARIABLES
    \* --- lean executor turn of the tutor websocket (tutor_ws.py) ---
    epc,               \* "closed" | "idle" | "det" | "llm" | "dispatch" | "done"
    quiz,              \* ctx.current_quiz_question is set
    high_cost_calls,   \* ctx.high_cost_calls
    turns,             \* executor turns started on this run
    turn_event,        \* type of the client event that started the turn
    turn_quiz,         \* a quiz question was pending when the turn started
    path,              \* "none" | "det" | "llm": branch _run_executor_turn took
    llm_calls,         \* llm.chat calls made by the executor in this turn
    skill_llm_calls,   \* LLMClient().chat calls made inside the dispatched skill
    dispatches,        \* _dispatch_tool_call calls in this turn
    call,              \* name in the tool call of this turn (dispatched or rejected)
    sent,              \* assistant envelopes (non-error) sent in this turn
    errors,            \* error envelopes sent in this turn
    persisted,         \* assistant rows written to session_messages in this turn
    sys_note           \* a system message was appended to ctx.history in this turn

execVars == <<epc, quiz, high_cost_calls, turns, turn_event, turn_quiz, path,
              llm_calls, skill_llm_calls, dispatches, call, sent, errors,
              persisted, sys_note>>

VARIABLES
    \* --- session bookkeeping of the tutor websocket (tutor_ws.py) ---
    high_cost_runs,    \* runs of skills registered with cost "high" in the session
    scheduled,         \* analyzer tasks created by the websocket handler
    end_seen,          \* analysis_status the end_session handler read ("none": not yet)
    end_reply,         \* what the end_session handler sent: "none" | "confirmation" | "already" | "error"
    pending,           \* _pending_board_state_requests holds the current request's future
    future_done,       \* that future has a result
    inbox_board,       \* the client's BOARD_STATE_RESPONSE for the request is queued on the socket
    waited,            \* seconds the dispatch has waited on the future
    board_result,      \* "none" | "state" | "timeout" | "wait_error"
    turn_outcome,      \* how the current turn ended ("none" while it runs)
    err_code,          \* error_code of the last error envelope of the turn
    hist_assistant,    \* the turn appended an assistant entry to ctx.history
    answer_index,      \* answer_index of the answer event evaluated in the turn
    alpha,             \* UserConceptMastery of the question's section
    beta,
    attempts,
    stored_ctx,        \* the session's stored context_data (lean form)
    last_pedagogical_action   \* ctx.last_pedagogical_action ("none": unset)

endVars == <<scheduled, end_seen, end_reply>>
boardVars == <<pending, future_done, inbox_board, waited, board_result>>
traceVars == <<turn_outcome, err_code, hist_assistant, answer_index>>
masteryVars == <<alpha, beta, attempts>>
extraVars == <<high_cost_runs, endVars, boardVars, traceVars, masteryVars, stored_ctx,
               last_pedagogical_action>>

(* learner model as update_user_model sees it *)
VARIABLES
    um_concepts,       \* user_model_state.concepts: topic -> record, or NoConcept
    um_current_topic,  \* user_model_state.current_topic ("none": unset)
    um_clock,          \* reading of datetime.now(timezone.utc)
    um_calls,          \* calls of update_user_model made so far
    um_call            \* arguments and result of the last call

umVars == <<um_concepts, um_current_topic, um_clock, um_calls, um_call>>

(* planner: determine_session_focus *)
VARIABLES
    pl_pc,             \* "idle" | "llm" | "returned" | "raised"
    pl_edges,          \* rows of the concept_graph table
    pl_mastered,       \* the mastered list handed to dag_query
    pl_candidates,     \* result of dag_query (DagUnavailable: the call raised)
    pl_llm_calls,      \* llm.chat calls of the run
    pl_focus,          \* ctx.current_focus_objective is set
    pl_fail            \* why the run raised

plannerVars == <<pl_pc, pl_edges, pl_mastered, pl_candidates, pl_llm_calls, pl_focus,
                 pl_fail>>

(* one call of retry_on_json_error *)
VARIABLES
    rt_pc,             \* "idle" | "running" | "returned" | "raised"
    rt_has_temp,       \* kwargs holds a numeric 'temperature'
    rt_temp0,          \* that temperature at the call, in tenths
    rt_temp,           \* kwargs['temperature'] now, in tenths
    rt_attempts,       \* calls of async_func made
    rt_failures,       \* JSONDecodeError / ValidationError caught
    rt_sleeps,         \* asyncio.sleep(1) calls made
    rt_raised          \* what the wrapper raised ("none": nothing)

retryVars == <<rt_pc, rt_has_temp, rt_temp0, rt_temp, rt_attempts, rt_failures,
               rt_sleeps, rt_raised>>

(* ephemeral maps of the whiteboard documents and their garbage collector *)
VARIABLES
    gc_docs,           \* sessions with a wrapper in _docs
    eph,               \* session -> key -> entry of the in-memory "ephemeral" map
    eph_redis,         \* session -> the same map in the snapshot stored in Redis
    gc_now,            \* time.time() * 1000
    eph_updates,       \* client updates made
    gc_step            \* the step taken last

gcVars == <<gc_docs, eph, eph_redis, gc_now, eph_updates, gc_step>>

(* layout allocator of one session *)
VARIABLES
    gr_exists,         \* the session has an entry in _allocators
    gr_grid,           \* _grid: row -> col -> region id, NoRegion when free
    gr_regions,        \* _regions: region id -> cells (row, col) as recorded
    gr_next_id,        \* the next fresh region id (uuid4)
    gr_last            \* the call made last and what it returned

gridVars == <<gr_exists, gr_grid, gr_regions, gr_next_id, gr_last>>

VARIABLES
    \* --- top of the main receive loop of the tutor websocket (tutor_ws.py) ---
    fl_pc,             \* "connect" | "top" | "planning" | "receive" | "closed"
    fl_runs,           \* invocations of determine_session_focus in the connection
    fl_since_msg,      \* of these, the ones since the last received client message
    fl_msgs,           \* client messages returned by ws.receive_text()
    fl_errors          \* "Planning Error" envelopes sent

loopVars == <<fl_pc, fl_runs, fl_since_msg, fl_msgs, fl_errors>>

otherLibVars == <<gcVars, gridVars, loopVars>>

libVars == <<umVars, plannerVars, retryVars, otherLibVars>>

vars == <<analyzerVars, wbVars, persistVars, execVars, extraVars, libVars>>

(* ======================================================================= *)
(*                 Session analyzer: queue_session_analysis                 *)
(* ======================================================================= *)

InitAnalyzer ==
    /\ analysis_status = "null"
    /\ ended_at = FALSE
    /\ folder_known \in BOOLEAN
    /\ kb_appends = 0
    /\ wpc = [w \in Workers |-> "idle"]
    /\ can_proceed = [w \in Workers |-> FALSE]
    /\ has_summary = [w \in Workers |-> FALSE]
    /\ ran_analysis = [w \in Workers |-> FALSE]
    /\ set_ended = [w \in Workers |-> FALSE]
    /\ final_written = [w \in Workers |-> "none"]

\* The task is created (asyncio.create_task) and obtains its database client.
\* A failure to obtain the client leaves supabase = None: the except branch
\* writes nothing.
StartWorker(w) ==
    /\ wpc[w] = "idle"
    /\ \E ok \in BOOLEAN :
          wpc' = [wpc EXCEPT ![w] = IF ok THEN "claim" ELSE "done"]
    /\ UNCHANGED <<analysis_status, ended_at, folder_known, kb_appends,
                   can_proceed, has_summary, ran_analysis, set_ended, final_written>>

\* UPDATE sessions SET analysis_status='processing'
\*   WHERE id = ? AND analysis_status IS NULL
ClaimUpdate(w) ==
    /\ wpc[w] = "claim"
    /\ \E ok \in BOOLEAN :
          IF ok
          THEN /\ analysis_status' = IF analysis_status = "null"
                                     THEN "processing" ELSE analysis_status
               /\ wpc' = [wpc EXCEPT ![w] = "check"]
          ELSE \* the update raised: can_proceed is False, nothing is written
               /\ wpc' = [wpc EXCEPT ![w] = "done"]
               /\ UNCHANGED analysis_status
    /\ UNCHANGED <<ended_at, folder_known, kb_appends, can_proceed,
                   has_summary, ran_analysis, set_ended, final_written>>

\* The value the task reads back decides whether it goes on.
ClaimConfirmed(status) == status = "processing"

\* asyncio.sleep(0.1); SELECT analysis_status; compare with 'processing'.
ClaimCheck(w) ==
    /\ wpc[w] = "check"
    /\ \E ok \in BOOLEAN :
          IF ok /\ ClaimConfirmed(analysis_status)
          THEN /\ can_proceed' = [can_proceed EXCEPT ![w] = TRUE]
               /\ wpc' = [wpc EXCEPT ![w] = "ended"]
          ELSE \* claimed by another worker, already processed, or the
               \* select raised before can_proceed was set
               /\ wpc' = [wpc EXCEPT ![w] = "done"]
               /\ UNCHANGED can_proceed
    /\ UNCHANGED <<analysis_status, ended_at, folder_known, kb_appends,
                   has_summary, ran_analysis, set_ended, final_written>>

\* UPDATE sessions SET ended_at = now() WHERE id = ?
MarkEnded(w) ==
    /\ wpc[w] = "ended"
    /\ \E ok \in BOOLEAN :
          IF ok
          THEN /\ ended_at' = TRUE
               /\ set_ended' = [set_ended EXCEPT ![w] = TRUE]
               /\ wpc' = [wpc EXCEPT ![w] = "analyze"]
          ELSE /\ wpc' = [wpc EXCEPT ![w] = "failwrite"]
               /\ UNCHANGED <<ended_at, set_ended>>
    /\ UNCHANGED <<analysis_status, folder_known, kb_appends, can_proceed,
                   has_summary, ran_analysis, final_written>>

\* text_summary, structured_analysis = await analyze_session(...)
Analyze(w) ==
    /\ wpc[w] = "analyze"
    /\ ran_analysis' = [ran_analysis EXCEPT ![w] = TRUE]
    /\ \E outcome \in {"summary", "nosummary", "raise"} :
          /\ has_summary' = [has_summary EXCEPT ![w] = (outcome = "summary")]
          /\ wpc' = [wpc EXCEPT ![w] = IF outcome = "raise" THEN "failwrite" ELSE "kb"]
    /\ UNCHANGED <<analysis_status, ended_at, folder_known, kb_appends,
                   can_proceed, set_ended, final_written>>

\* if text_summary and folder_id: rpc('append_to_knowledge_base'); a failing
\* RPC is logged and does not fail the analysis.
AppendKB(w) ==
    /\ wpc[w] = "kb"
    /\ IF has_summary[w] /\ folder_known
       THEN \E ok \in BOOLEAN : kb_appends' = IF ok THEN kb_appends + 1 ELSE kb_appends
       ELSE UNCHANGED kb_appends
    /\ wpc' = [wpc EXCEPT ![w] = "success"]
    /\ UNCHANGED <<analysis_status, ended_at, folder_known, can_proceed,
                   has_summary, ran_analysis, set_ended, final_written>>

\* UPDATE sessions SET analysis_status='success' WHERE id = ?
WriteSuccess(w) ==
    /\ wpc[w] = "success"
    /\ \E ok \in BOOLEAN :
          IF ok
          THEN /\ analysis_status' = "success"
               /\ final_written' = [final_written EXCEPT ![w] = "success"]
               /\ wpc' = [wpc EXCEPT ![w] = "done"]
          ELSE /\ wpc' = [wpc EXCEPT ![w] = "failwrite"]
               /\ UNCHANGED <<analysis_status, final_written>>
    /\ UNCHANGED <<ended_at, folder_known, kb_appends, can_proceed,
                   has_summary, ran_analysis, set_ended>>

\* except Exception: if supabase and can_proceed:
\*     UPDATE sessions SET analysis_status='failed' WHERE id = ?
\* (a failure of this update is only logged)
WriteFailed(w) ==
    /\ wpc[w] = "failwrite"
    /\ \E ok \in BOOLEAN :
          IF ok /\ can_proceed[w]
          THEN /\ analysis_status' = "failed"
               /\ final_written' = [final_written EXCEPT ![w] = "failed"]
          ELSE UNCHANGED <<analysis_status, final_written>>
    /\ wpc' = [wpc EXCEPT ![w] = "done"]
    /\ UNCHANGED <<ended_at, folder_known, kb_appends, can_proceed,
                   has_summary, ran_analysis, set_ended>>

NextAnalyzer ==
    /\ UNCHANGED <<wbVars, persistVars, execVars, extraVars, libVars>>
    /\ \E w \in Workers :
        \/ StartWorker(w)
        \/ ClaimUpdate(w)
        \/ ClaimCheck(w)
        \/ MarkEnded(w)
        \/ Analyze(w)
        \/ AppendKB(w)
        \/ WriteSuccess(w)
        \/ WriteFailed(w)


(* ======================================================================= *)
(*                 Whiteboard channel: whiteboard_stream                    *)
(* ======================================================================= *)

\* metadata.source of an object spec as the sanitiser sees it: "none" (no such
\* key), "user", "assistant", or "bad": a spec whose metadata is a truthy
\* value that is not a mapping, so that md.get(...) raises.
Sources == {"none", "user", "assistant", "bad"}
EmptyObjects == [k \in Keys |-> "none"]
NoUpdate == [id |-> 0, key |-> 0, src |-> "none", wf |-> FALSE]

\* Update blobs a client can send: one that apply_update rejects, or one that
\* sets an object.
ClientUpdates(id) ==
    {[id |-> id, key |-> 0, src |-> "none", wf |-> FALSE]} \cup
    {[id |-> id, key |-> k, src |-> s, wf |-> TRUE] :
        k \in Keys, s \in {"user", "assistant", "bad"}}

InitWB ==
    /\ docs_reg = NoDoc
    /\ next_doc = 1
    /\ conn_doc = [c \in Conns |-> NoDoc]
    /\ connections = [d \in Docs |-> {}]
    /\ lock_holder = [d \in Docs |-> NoConn]
    /\ lock_waiters = [d \in Docs |-> <<>>]
    /\ ydoc = [d \in Docs |-> EmptyObjects]
    /\ applied = [d \in Docs |-> <<>>]
    /\ received = <<>>
    /\ next_upd = 1
    /\ redis = EmptyObjects
    /\ cpc = [c \in Conns |-> "closed"]
    /\ cur = [c \in Conns |-> NoUpdate]
    /\ delivered = [c \in Conns |-> {}]
    /\ cleanup_snap = [c \in Conns |-> EmptyObjects]

\* apply_update(txn, update_bytes) on the objects map.
ApplyUpdate(objs, u) == [objs EXCEPT ![u.key] = u.src]

\* The owner-field pass after apply: every spec whose metadata.source is not
\* "user" is collected in to_patch and written back with source "user"; an
\* exception while scanning (metadata that is not a mapping) is caught around
\* the whole pass, so nothing is written back.
Sanitise(objs) ==
    IF \E k \in Keys : objs[k] = "bad"
    THEN objs
    ELSE [k \in Keys |-> IF objs[k] = "none" THEN "none" ELSE "user"]

\* whiteboard_stream up to _get_or_create_doc: the session is in _docs (the
\* wrapper is returned and the socket added to its connections without
\* suspending), or a new _SessionDoc is built and the handler awaits redis.get.
WBConnect(c) ==
    /\ cpc[c] = "closed"
    /\ IF docs_reg # NoDoc
       THEN /\ conn_doc' = [conn_doc EXCEPT ![c] = docs_reg]
            /\ connections' = [connections EXCEPT ![docs_reg] = @ \cup {c}]
            /\ cpc' = [cpc EXCEPT ![c] = "recv"]
            /\ UNCHANGED next_doc
       ELSE /\ next_doc <= MaxDocs
            /\ conn_doc' = [conn_doc EXCEPT ![c] = next_doc]
            /\ next_doc' = next_doc + 1
            /\ cpc' = [cpc EXCEPT ![c] = "loading"]
            /\ UNCHANGED connections
    /\ UNCHANGED <<docs_reg, lock_holder, lock_waiters, ydoc, applied, received,
                   next_upd, redis, cur, delivered, cleanup_snap>>

\* _get_or_create_doc after "await redis.get": hydrate the new wrapper,
\* _docs[session_id] = doc_wrapper, then connections.add(ws).
WBLoadDone(c) ==
    /\ cpc[c] = "loading"
    /\ LET d == conn_doc[c] IN
       /\ \E ok \in BOOLEAN :
             ydoc' = [ydoc EXCEPT ![d] = IF ok THEN redis ELSE EmptyObjects]
       /\ docs_reg' = d
       /\ connections' = [connections EXCEPT ![d] = @ \cup {c}]
    /\ cpc' = [cpc EXCEPT ![c] = "recv"]
    /\ UNCHANGED <<next_doc, conn_doc, lock_holder, lock_waiters, applied,
                   received, next_upd, redis, cur, delivered, cleanup_snap>>

\* Body of "async with doc_wrapper._lock" up to the first await: apply the
\* update and run the owner-field pass.  A blob that apply_update rejects
\* leaves the block at once ("continue").
EnterLock(c, u) ==
    LET d == conn_doc[c] IN
    IF u.wf
    THEN /\ ydoc' = [ydoc EXCEPT ![d] = Sanitise(ApplyUpdate(ydoc[d], u))]
         /\ applied' = [applied EXCEPT ![d] = Append(@, u.id)]
         /\ lock_holder' = [lock_holder EXCEPT ![d] = c]
         /\ cpc' = [cpc EXCEPT ![c] = "broadcast"]
    ELSE /\ cpc' = [cpc EXCEPT ![c] = "recv"]
         /\ UNCHANGED <<ydoc, applied, lock_holder>>

\* update_bytes = await ws.receive_bytes(), then "async with _lock": the lock
\* is taken at once when it is free and nobody waits, else the handler queues.
WBReceive(c) ==
    /\ cpc[c] = "recv"
    /\ next_upd <= MaxUpdates
    /\ \E u \in ClientUpdates(next_upd) :
          /\ received' = Append(received, u.id)
          /\ next_upd' = next_upd + 1
          /\ cur' = [cur EXCEPT ![c] = u]
          /\ LET d == conn_doc[c] IN
             IF lock_holder[d] = NoConn /\ lock_waiters[d] = <<>>
             THEN /\ EnterLock(c, u)
                  /\ UNCHANGED lock_waiters
             ELSE /\ lock_waiters' = [lock_waiters EXCEPT ![d] = Append(@, c)]
                  /\ cpc' = [cpc EXCEPT ![c] = "wantlock"]
                  /\ UNCHANGED <<ydoc, applied, lock_holder>>
    /\ UNCHANGED <<docs_reg, next_doc, conn_doc, connections, redis, delivered,
                   cleanup_snap>>

\* The lock is released and the first waiter is woken.
WBAcquire(c) ==
    /\ cpc[c] = "wantlock"
    /\ LET d == conn_doc[c] IN
       /\ lock_holder[d] = NoConn
       /\ lock_waiters[d] # <<>>
       /\ Head(lock_waiters[d]) = c
       /\ lock_waiters' = [lock_waiters EXCEPT ![d] = Tail(@)]
    /\ EnterLock(c, cur[c])
    /\ UNCHANGED <<docs_reg, next_doc, conn_doc, connections, received, next_upd,
                   redis, cur, delivered, cleanup_snap>>

\* _broadcast(update_bytes, doc_wrapper.connections, ws): the received blob
\* is sent to every peer but the origin; peers whose send fails are pruned.
WBBroadcast(c) ==
    /\ cpc[c] = "broadcast"
    /\ LET d == conn_doc[c]
           peers == connections[d] \ {c} IN
       \E dead \in SUBSET peers :
          /\ delivered' = [p \in Conns |->
                             IF p \in peers \ dead
                             THEN delivered[p] \cup {cur[c].id}
                             ELSE delivered[p]]
          /\ connections' = [connections EXCEPT ![d] = @ \ dead]
    /\ cpc' = [cpc EXCEPT ![c] = "persist"]
    /\ UNCHANGED <<docs_reg, next_doc, conn_doc, lock_holder, lock_waiters, ydoc,
                   applied, received, next_upd, redis, cur, cleanup_snap>>

\* snapshot = encode_state_as_update; await redis.set(key, snapshot); a
\* failure is logged.  Leaving the block releases the lock.
WBPersist(c) ==
    /\ cpc[c] = "persist"
    /\ LET d == conn_doc[c] IN
       /\ \E ok \in BOOLEAN : redis' = IF ok THEN ydoc[d] ELSE redis
       /\ lock_holder' = [lock_holder EXCEPT ![d] = NoConn]
    /\ cpc' = [cpc EXCEPT ![c] = "recv"]
    /\ cur' = [cur EXCEPT ![c] = NoUpdate]
    /\ UNCHANGED <<docs_reg, next_doc, conn_doc, connections, lock_waiters, ydoc,
                   applied, received, next_upd, delivered, cleanup_snap>>

\* receive_bytes raises (disconnect): finally: connections.discard(ws); when
\* the set is empty a last snapshot is encoded and redis.set is awaited.
WBDisconnect(c) ==
    /\ cpc[c] = "recv"
    /\ LET d == conn_doc[c]
           rest == connections[d] \ {c} IN
       /\ connections' = [connections EXCEPT ![d] = rest]
       /\ IF rest = {}
          THEN /\ cleanup_snap' = [cleanup_snap EXCEPT ![c] = ydoc[d]]
               /\ cpc' = [cpc EXCEPT ![c] = "cleanup"]
               /\ UNCHANGED conn_doc
          ELSE /\ cpc' = [cpc EXCEPT ![c] = "closed"]
               /\ conn_doc' = [conn_doc EXCEPT ![c] = NoDoc]
               /\ UNCHANGED cleanup_snap
    /\ UNCHANGED <<docs_reg, next_doc, lock_holder, lock_waiters, ydoc, applied,
                   received, next_upd, redis, cur, delivered>>

\* finally, after "await redis.set": _docs.pop(session_key, None).
WBCleanup(c) ==
    /\ cpc[c] = "cleanup"
    /\ \E ok \in BOOLEAN : redis' = IF ok THEN cleanup_snap[c] ELSE redis
    /\ docs_reg' = NoDoc
    /\ cpc' = [cpc EXCEPT ![c] = "closed"]
    /\ conn_doc' = [conn_doc EXCEPT ![c] = NoDoc]
    /\ cleanup_snap' = [cleanup_snap EXCEPT ![c] = EmptyObjects]
    /\ UNCHANGED <<next_doc, connections, lock_holder, lock_waiters, ydoc, applied,
                   received, next_upd, cur, delivered>>

NextWB ==
    /\ UNCHANGED <<analyzerVars, persistVars, execVars, extraVars, libVars>>
    /\ \E c \in Conns :
        \/ WBConnect(c)
        \/ WBLoadDone(c)
        \/ WBReceive(c)
        \/ WBAcquire(c)
        \/ WBBroadcast(c)
        \/ WBPersist(c)
        \/ WBDisconnect(c)
        \/ WBCleanup(c)

(* ======================================================================= *)
(*        Chat persistence: _persist_*_message, _hydrate_initial_state      *)
(* ======================================================================= *)

TurnNos(rs) == {r.turn_no : r \in rs}
MaxOf(S) == CHOOSE m \in S : \A x \in S : x <= m
MinOf(S) == CHOOSE m \in S : \A x \in S : m <= x

\* The Convex functions live outside the Python sources; they are modelled
\* from the data model: session_messages has (session_id, turn_no) unique,
\* and history is read as the newest rows in chronological order.
InsertAccepted(rs, row) == row.turn_no \notin TurnNos(rs)
LastFetchedTurnNo(rs) == MaxOf(TurnNos(rs))
FetchedSnapshotIndex(rs) == MaxOf({r.snap : r \in rs})
LastSnapshotUpTo(snaps, maxidx) == MaxOf({i \in snaps : i <= maxidx})
InsertWhiteboardSnapshot(snaps, idx) == snaps \cup {idx}

\* next_turn = (ctx.latest_turn_no or 0) + 1
NextTurnSkipping(latest) == latest + 2
NextTurn(latest) == latest + 1
\* snapshot_index_val = next_turn  # align with turn_no
SnapshotIndexValOffByOne(nt) == nt + 1
SnapshotIndexVal(nt) == nt

InitPersist ==
    /\ rows = {}
    /\ snapshots = {}
    /\ latest_turn_no = [c \in ChatConns |-> 0]
    /\ latest_snapshot_index = [c \in ChatConns |-> 0]
    /\ ppc = [c \in ChatConns |-> "closed"]
    /\ next_turn = [c \in ChatConns |-> 0]
    /\ snapshot_index_val = [c \in ChatConns |-> NoSnapshot]

\* tutor_stream builds a TutorContext (latest_turn_no and latest_snapshot_index
\* at their defaults) and calls _hydrate_initial_state: when the message query
\* returns rows, ctx.latest_turn_no is the turn_no of the last one; when the
\* snapshot query returns rows, ctx.latest_snapshot_index is the index of the
\* last one.  An exception of either query is logged and leaves the rest of
\* the context as it is.
HydrateInitialState(c) ==
    \E chat_ok, snap_ok \in BOOLEAN :
       /\ latest_turn_no' =
             [latest_turn_no EXCEPT ![c] =
                 IF chat_ok /\ rows # {} THEN LastFetchedTurnNo(rows) ELSE 0]
       /\ latest_snapshot_index' =
             [latest_snapshot_index EXCEPT ![c] =
                 IF chat_ok /\ snap_ok /\ rows # {}
                    /\ \E i \in snapshots : i <= FetchedSnapshotIndex(rows)
                 THEN LastSnapshotUpTo(snapshots, FetchedSnapshotIndex(rows))
                 ELSE 0]

PConnect(c) ==
    /\ ppc[c] = "closed"
    /\ HydrateInitialState(c)
    /\ ppc' = [ppc EXCEPT ![c] = "open"]
    /\ UNCHANGED <<rows, snapshots, next_turn, snapshot_index_val>>

\* convex.mutation("insertSessionMessage", row) as the caller sees it: the row
\* is stored and the call returns ("ok"), the row is stored but the call
\* raises ("lost": the reply never arrives), or nothing is stored and the
\* call raises ("fail").  A row whose turn_no exists is always refused.
InsertOutcomes(row) ==
    IF InsertAccepted(rows, row) THEN {"ok", "lost", "fail"} ELSE {"fail"}

\* _persist_user_message: ctx.latest_turn_no advances only when the mutation
\* returned; any exception is logged and swallowed.
PersistUserMessage(c) ==
    LET nt == NextTurn(latest_turn_no[c])
        row == [turn_no |-> nt, role |-> "user", snap |-> NoSnapshot] IN
    /\ nt <= MaxTurnNo
    /\ \E o \in InsertOutcomes(row) :
          /\ rows' = IF o \in {"ok", "lost"} THEN rows \cup {row} ELSE rows
          /\ latest_turn_no' = IF o = "ok"
                               THEN [latest_turn_no EXCEPT ![c] = nt]
                               ELSE latest_turn_no

PPersistUser(c) ==
    /\ ppc[c] = "open"
    /\ PersistUserMessage(c)
    /\ UNCHANGED <<snapshots, latest_snapshot_index, ppc, next_turn,
                   snapshot_index_val>>

\* _persist_assistant_message up to the insertSessionMessage call: next_turn
\* is computed; with whiteboard actions the snapshot is inserted first under
\* snapshot_index_val and ctx.latest_snapshot_index is set.  An exception of
\* the snapshot mutation ends the function (logged, nothing else written).
PPersistAssistantBegin(c) ==
    /\ ppc[c] = "open"
    /\ LET nt == NextTurn(latest_turn_no[c]) IN
       /\ nt <= MaxTurnNo
       /\ \E whiteboard_actions \in BOOLEAN :
            IF whiteboard_actions
            THEN \E o \in {"ok", "lost", "fail"} :
                   /\ snapshots' = IF o = "fail" THEN snapshots
                                   ELSE InsertWhiteboardSnapshot(snapshots,
                                                                 SnapshotIndexVal(nt))
                   /\ IF o = "ok"
                      THEN /\ latest_snapshot_index' =
                                [latest_snapshot_index EXCEPT ![c] = SnapshotIndexVal(nt)]
                           /\ snapshot_index_val' =
                                [snapshot_index_val EXCEPT ![c] = SnapshotIndexVal(nt)]
                           /\ next_turn' = [next_turn EXCEPT ![c] = nt]
                           /\ ppc' = [ppc EXCEPT ![c] = "asst_msg"]
                      ELSE UNCHANGED <<latest_snapshot_index, snapshot_index_val,
                                       next_turn, ppc>>
            ELSE /\ snapshot_index_val' = [snapshot_index_val EXCEPT ![c] = NoSnapshot]
                 /\ next_turn' = [next_turn EXCEPT ![c] = nt]
                 /\ ppc' = [ppc EXCEPT ![c] = "asst_msg"]
                 /\ UNCHANGED <<snapshots, latest_snapshot_index>>
    /\ UNCHANGED <<rows, latest_turn_no>>

\* _persist_assistant_message, the insertSessionMessage call and after.
PPersistAssistantMessage(c) ==
    /\ ppc[c] = "asst_msg"
    /\ LET row == [turn_no |-> next_turn[c], role |-> "assistant",
                   snap |-> snapshot_index_val[c]] IN
       \E o \in InsertOutcomes(row) :
          /\ rows' = IF o \in {"ok", "lost"} THEN rows \cup {row} ELSE rows
          /\ latest_turn_no' = IF o = "ok"
                               THEN [latest_turn_no EXCEPT ![c] = next_turn[c]]
                               ELSE latest_turn_no
    /\ ppc' = [ppc EXCEPT ![c] = "open"]
    /\ next_turn' = [next_turn EXCEPT ![c] = 0]
    /\ snapshot_index_val' = [snapshot_index_val EXCEPT ![c] = NoSnapshot]
    /\ UNCHANGED <<snapshots, latest_snapshot_index>>

\* The websocket closes; the TutorContext of the connection is discarded.
PDisconnect(c) ==
    /\ ppc[c] = "open"
    /\ ppc' = [ppc EXCEPT ![c] = "closed"]
    /\ latest_turn_no' = [latest_turn_no EXCEPT ![c] = 0]
    /\ latest_snapshot_index' = [latest_snapshot_index EXCEPT ![c] = 0]
    /\ UNCHANGED <<rows, snapshots, next_turn, snapshot_index_val>>

NextPersist ==
    /\ UNCHANGED <<analyzerVars, wbVars, execVars, extraVars, libVars>>
    /\ \E c \in ChatConns :
        \/ PConnect(c)
        \/ PPersistUser(c)
        \/ PPersistAssistantBegin(c)
        \/ PPersistAssistantMessage(c)
        \/ PDisconnect(c)


(* ======================================================================= *)
(*      Tutor websocket: main loop, _run_executor_turn, _dispatch_tool_call *)
(* ======================================================================= *)

\* Client events that reach an executor turn.
TurnEvents == {"user_message", "answer", "next", "canvas_click"}

\* Names a ToolCall accepts: front-end tools, "reflect" (allowed but neither
\* handled directly nor registered), get_board_state, and "skill" for any
\* other registered backend skill.
ToolNames == {"explain", "ask_question", "end_session", "draw", "reflect",
              "get_board_state", "skill"}

\* models/tool_calls.py: the static front-end list, the registered backend
\* skills (get_board_state, and "skill" for any other one; none is named
\* message, feedback or error), and the name validator of ToolCall.
FEToolNames == {"ask_question", "explain", "draw", "reflect", "summarise_context",
                "end_session"}
BackendToolNames == {"get_board_state", "skill"}
AllowedToolNames == FEToolNames \cup BackendToolNames
CheckNameAllowed(v) == v \in AllowedToolNames
\* the names _dispatch_tool_call wraps directly into a response envelope
DirectDispatchNames == {"explain", "ask_question", "feedback", "message", "error",
                        "end_session"}
\* names the LLM can put into its reply
LLMNames == ToolNames \cup DirectDispatchNames \cup {"other_name"}

\* What llm.chat returned, as _run_executor_turn classifies it.
InvalidReplies == {"not_json", "empty", "no_keys", "unknown_tool"}

\* @skill(cost=...): the _skill_cost tag of a registered skill
SkillCosts == {"low", "medium", "high"}
\* TutorContext.max_high_cost_calls
max_high_cost_calls == 3
BoardStateTimeout == 20     \* seconds, asyncio.wait_for(future, timeout=20.0)

NoIndex == -2                       \* the answer event has no answer_index
AnswerIndexes == -1 .. NumOptions   \* integers a client may send
InitialAlpha == 1                   \* UserConceptMastery defaults
InitialBeta == 1
InitialAttempts == 0

\* evaluate_quiz: 0 <= user_answer_idx < len(question.options) (a negative
\* index is already rejected by EvaluateQuizArgs, with the same error)
InOptionRangeInclusive(idx, n) == 0 <= idx /\ idx <= n
InOptionRange(idx, n) == 0 <= idx /\ idx < n

\* error_code the deterministic branch sends when evaluate_quiz raises
\* ToolInputError
AnswerInputErrorCode == "ANSWER_EVAL_INPUT_ERROR"

\* TutorContext.lean_dict(): the context without history and
\* whiteboard_history, restricted to the fields the model tracks
LeanDict == [quiz |-> quiz, alpha |-> alpha, beta |-> beta, attempts |-> attempts,
             last_pedagogical_action |-> last_pedagogical_action]

\* update_user_model(outcome): "none" stands for a call that did not run or
\* raised before the update
UpdateUserModel(outcome) ==
    /\ alpha' = IF outcome = "correct" THEN alpha + 1 ELSE alpha
    /\ beta' = IF outcome = "incorrect" THEN beta + 1 ELSE beta
    /\ attempts' = IF outcome = "none" THEN attempts ELSE attempts + 1

\* retry_on_json_error(async_func, *args, retries=3, ...)
retries == 3
\* for attempt in range(retries): another call is made while attempts remain
MoreAttemptsOneExtra(n) == n <= retries
MoreAttempts(n) == n < retries

\* The deterministic branch is taken when the last history item is a user
\* item holding a JSON object of type "answer" and ctx.current_quiz_question
\* is set.
TakesDeterministicPathWrongType(ev, q) == q /\ ev = "user_answer"
TakesDeterministicPath(ev, q) == q /\ ev = "answer"

InitExec ==
    /\ epc = "closed"
    /\ quiz = FALSE
    /\ high_cost_calls = 0
    /\ turns = 0
    /\ turn_event = "none"
    /\ turn_quiz = FALSE
    /\ path = "none"
    /\ llm_calls = 0
    /\ skill_llm_calls = 0
    /\ dispatches = 0
    /\ call = "none"
    /\ sent = 0
    /\ errors = 0
    /\ persisted = 0
    /\ sys_note = FALSE
    /\ high_cost_runs = 0
    /\ scheduled = {}
    /\ end_seen = "none"
    /\ end_reply = "none"
    /\ pending = FALSE
    /\ future_done = FALSE
    /\ inbox_board = FALSE
    /\ waited = 0
    /\ board_result = "none"
    /\ turn_outcome = "none"
    /\ err_code = "none"
    /\ hist_assistant = FALSE
    /\ answer_index = NoIndex
    /\ alpha = InitialAlpha
    /\ beta = InitialBeta
    /\ attempts = InitialAttempts
    /\ stored_ctx = [quiz |-> FALSE, alpha |-> InitialAlpha, beta |-> InitialBeta,
                     attempts |-> InitialAttempts,
                     last_pedagogical_action |-> "none"]
    /\ last_pedagogical_action = "none"

UnchangedPersistLocals ==
    UNCHANGED <<snapshots, latest_snapshot_index, ppc, next_turn,
                snapshot_index_val>>

\* asyncio.create_task(queue_session_analysis(...)): one more analyzer task.
CreateAnalysisTask ==
    /\ Workers \ scheduled # {}
    /\ scheduled' = scheduled \cup {MinOf(Workers \ scheduled)}

\* The finally block of tutor_stream when the session did not end cleanly:
\* the context save raises and is logged, analysis_status is read, and a task
\* is created when it is null.  A failure of the status read is logged.
FinallyUnclean ==
    \E read_ok \in BOOLEAN :
       IF read_ok /\ analysis_status = "null"
       THEN CreateAnalysisTask
       ELSE UNCHANGED scheduled

\* Reply of the end_session handler: both branches build the reply with
\* MessageResponse(response_type=..., text=...), which lacks the required
\* field message_text, so the constructor raises and the handler sends the
\* END_SESSION_FAIL error envelope instead.
EndSessionReplyAsIntended(status) == IF status = "null" THEN "confirmation" ELSE "already"
EndSessionReply(status) == "error"

\* tutor_stream from accept to the receive loop: a TutorContext is built and
\* hydrated.  The saved context never holds a pending question: every save
\* of the loop calls session_manager.update_session_context_convex, which
\* SessionManager does not define.
ChatConnect ==
    /\ epc = "closed"
    /\ UNCHANGED <<high_cost_runs, endVars, boardVars, stored_ctx>>
    /\ PConnect(TutorConn)
    /\ epc' = "idle"
    /\ quiz' = stored_ctx.quiz
    /\ alpha' = stored_ctx.alpha
    /\ beta' = stored_ctx.beta
    /\ attempts' = stored_ctx.attempts
    /\ last_pedagogical_action' = stored_ctx.last_pedagogical_action
    /\ turn_outcome' = "none"
    /\ err_code' = "none"
    /\ hist_assistant' = FALSE
    /\ answer_index' = NoIndex
    /\ UNCHANGED <<high_cost_calls, turns, turn_event, turn_quiz, path, llm_calls,
                   skill_llm_calls, dispatches, call, sent, errors, persisted,
                   sys_note>>

\* One iteration of the receive loop up to the call of _run_executor_turn.
\* A payload that changes whiteboard_mode raises (the context save does not
\* exist) and the loop breaks.  A user_message is persisted first.  The event
\* is appended to ctx.history and the turn starts on the branch the history
\* selects.
ChatReceive ==
    /\ epc = "idle"
    /\ ~inbox_board
    /\ UNCHANGED <<high_cost_runs, end_seen, end_reply, boardVars, masteryVars,
                   stored_ctx>>
    /\ turns < MaxTurns
    /\ \E ev \in TurnEvents, mode_change \in BOOLEAN :
         IF mode_change
         THEN /\ epc' = "closed"
              /\ turn_outcome' = "loop_error"
              /\ err_code' = "UNHANDLED_WS_LOOP_ERROR"
              /\ UNCHANGED <<hist_assistant, answer_index, last_pedagogical_action>>
              /\ FinallyUnclean
              /\ ppc' = [ppc EXCEPT ![TutorConn] = "closed"]
              /\ latest_turn_no' = [latest_turn_no EXCEPT ![TutorConn] = 0]
              /\ latest_snapshot_index' =
                    [latest_snapshot_index EXCEPT ![TutorConn] = 0]
              /\ UNCHANGED <<rows, snapshots, next_turn, snapshot_index_val>>
              /\ UNCHANGED <<quiz, high_cost_calls, turns, turn_event, turn_quiz,
                             path, llm_calls, skill_llm_calls, dispatches, call,
                             sent, errors, persisted, sys_note>>
         ELSE /\ IF ev = "user_message" /\ NextTurn(latest_turn_no[TutorConn]) <= MaxTurnNo
                 THEN PersistUserMessage(TutorConn)
                 ELSE UNCHANGED <<rows, latest_turn_no>>
              /\ UnchangedPersistLocals
              /\ UNCHANGED scheduled
              /\ turn_outcome' = "none"
              /\ err_code' = "none"
              /\ hist_assistant' = FALSE
              /\ answer_index' = NoIndex
              \* a generic command (next, previous, summary, start) is stored
              \* as the last pedagogical action
              /\ last_pedagogical_action' = IF ev = "next" THEN ev
                                            ELSE last_pedagogical_action
              /\ turn_event' = ev
              /\ turn_quiz' = quiz
              /\ turns' = turns + 1
              /\ IF TakesDeterministicPath(ev, quiz)
                 THEN epc' = "det" /\ path' = "det"
                 ELSE epc' = "llm" /\ path' = "llm"
              /\ llm_calls' = 0
              /\ skill_llm_calls' = 0
              /\ dispatches' = 0
              /\ call' = "none"
              /\ sent' = 0
              /\ errors' = 0
              /\ persisted' = 0
              /\ sys_note' = FALSE
              /\ UNCHANGED <<quiz, high_cost_calls>>

\* Deterministic answer branch of _run_executor_turn.  A missing answer_index
\* is answered with INVALID_ANSWER_FORMAT; evaluate_quiz either returns the
\* feedback (the question is cleared, one feedback envelope is sent and a
\* simulated feedback call is appended to the history), or raises
\* ToolInputError (index out of range: ANSWER_EVAL_INPUT_ERROR) or another
\* error (ANSWER_EVAL_ERROR).  Every case returns; nothing is persisted.
DeterministicEvaluate ==
    /\ epc = "det"
    /\ UNCHANGED <<high_cost_runs, endVars, boardVars, stored_ctx, last_pedagogical_action>>
    /\ \E idx \in {NoIndex} \cup AnswerIndexes :
         /\ answer_index' = idx
         /\ IF idx = NoIndex
            THEN /\ turn_outcome' = "missing_index"
                 /\ err_code' = "INVALID_ANSWER_FORMAT"
                 /\ errors' = errors + 1
                 /\ UNCHANGED <<sent, quiz, masteryVars, hist_assistant>>
            ELSE IF ~InOptionRange(idx, NumOptions)
            THEN /\ turn_outcome' = "tool_input_error"
                 /\ err_code' = AnswerInputErrorCode
                 /\ errors' = errors + 1
                 /\ UNCHANGED <<sent, quiz, masteryVars, hist_assistant>>
            ELSE \E um \in {"correct", "incorrect", "none"}, failed \in BOOLEAN :
                 /\ UpdateUserModel(um)
                 /\ IF failed
                    THEN /\ turn_outcome' = "error"
                         /\ err_code' = "ANSWER_EVAL_ERROR"
                         /\ errors' = errors + 1
                         /\ UNCHANGED <<sent, quiz, hist_assistant>>
                    ELSE /\ turn_outcome' = "evaluated"
                         /\ err_code' = "none"
                         /\ sent' = sent + 1
                         /\ quiz' = FALSE
                         /\ hist_assistant' = TRUE
                         /\ UNCHANGED errors
    /\ epc' = "done"
    /\ UNCHANGED persistVars
    /\ UNCHANGED <<high_cost_calls, turns, turn_event, turn_quiz, path, llm_calls,
                   skill_llm_calls, dispatches, call, persisted, sys_note>>

\* One attempt of retry_on_json_error(llm.chat, ...) and, when it returns,
\* the handling of the reply up to the dispatch.  A JSONDecodeError or
\* ValidationError of the call is retried while attempts remain and re-raised
\* after the last one; any other exception is raised at once; both end the
\* turn with an error envelope.  A reply that is not a tool call ends the turn
\* with an error envelope (for missing keys a system message is appended to
\* the history as well).  A valid tool call is appended to the history and
\* dispatched.
ExecutorLLMCall ==
    /\ epc = "llm"
    /\ UNCHANGED <<high_cost_runs, endVars, boardVars, masteryVars, stored_ctx, last_pedagogical_action,
                   answer_index>>
    /\ llm_calls' = llm_calls + 1
    /\ \E o \in {"json_error", "other_error"} \cup (InvalidReplies \ {"unknown_tool"})
                \cup LLMNames :
         CASE o = "json_error" ->
                 IF MoreAttempts(llm_calls + 1)
                 THEN UNCHANGED <<epc, errors, sys_note, call, dispatches,
                                  turn_outcome, err_code, hist_assistant>>
                 ELSE /\ epc' = "done"
                      /\ errors' = errors + 1
                      /\ turn_outcome' = o
                      /\ err_code' = "uncoded"
                      /\ UNCHANGED <<sys_note, call, dispatches, hist_assistant>>
           [] o \in {"other_error"} \cup InvalidReplies
              \/ (o \in LLMNames /\ ~CheckNameAllowed(o)) ->
                 \* an unknown tool name fails ToolCall(**tool_call_data) with
                 \* a ValidationError, before the reply is appended to the
                 \* history: "Processing Error" is sent and nothing else
                 /\ epc' = "done"
                 /\ errors' = errors + 1
                 /\ sys_note' = (o = "no_keys")
                 /\ turn_outcome' = IF o \in LLMNames THEN "unknown_tool" ELSE o
                 /\ err_code' = "uncoded"
                 /\ call' = IF o \in LLMNames THEN o ELSE call
                 /\ UNCHANGED <<dispatches, hist_assistant>>
           [] o \in LLMNames /\ CheckNameAllowed(o) ->
                 /\ epc' = "dispatch"
                 /\ call' = o
                 /\ dispatches' = dispatches + 1
                 /\ hist_assistant' = TRUE
                 /\ UNCHANGED <<errors, sys_note, turn_outcome, err_code>>
    /\ UNCHANGED persistVars
    /\ UNCHANGED <<quiz, high_cost_calls, turns, turn_event, turn_quiz, path,
                   skill_llm_calls, sent, persisted>>

\* Outcomes of _dispatch_tool_call for a tool name: envelopes sent, error
\* envelopes sent, system message appended, effect on the pending question,
\* LLM calls made inside the skill.
Outcome(s, e, n, q, l) == [sent |-> s, errors |-> e, note |-> n, quiz |-> q, llm |-> l]
DispatchOutcomes(name) ==
    \* get_supabase_client() raises before any branch: "Internal Error"
    {Outcome(0, 1, FALSE, "keep", 0)} \cup
    CASE name \in {"explain", "end_session", "draw"} ->
            {Outcome(1, 0, FALSE, "keep", 0), Outcome(0, 1, FALSE, "keep", 0)}
      [] name = "ask_question" ->
            \* question_data missing or invalid; or the question is sent and stored
            {Outcome(0, 1, FALSE, "keep", 0), Outcome(1, 0, FALSE, "set", 0)}
      [] name = "get_board_state" ->
            \* the round trip is RequestBoardState and the steps after it
            {}
      [] name = "reflect" ->
            {Outcome(0, 1, FALSE, "keep", 0)}
      [] name = "skill" ->
            {Outcome(0, 1, TRUE, "keep", 0)} \cup          \* ToolInputError
            {Outcome(s, 1 - s, FALSE, q, l) :               \* envelope, or error
                s \in {0, 1}, q \in {"keep", "clear"}, l \in {0, 1}} \cup
            {Outcome(0, 0, FALSE, "keep", l) : l \in {0, 1}} \* result of another type

\* _dispatch_tool_call.  Each branch that sends an assistant envelope then
\* evaluates _persist_assistant_message(convex, ...): the function has no
\* parameter, local or module global named convex, so the call raises
\* NameError inside the surrounding try and the failure is logged; no row is
\* written.  A registered skill is invoked whatever its cost tag: the tag is
\* not read and ctx.high_cost_calls is neither compared with the cap nor
\* incremented.
DispatchToolCall ==
    /\ epc = "dispatch"
    /\ UNCHANGED <<endVars, boardVars, stored_ctx, hist_assistant, answer_index>>
    /\ \E cost \in SkillCosts :
         high_cost_runs' = IF call = "skill" /\ cost = "high"
                           THEN high_cost_runs + 1 ELSE high_cost_runs
    /\ \E o \in DispatchOutcomes(call) :
         /\ turn_outcome' = IF o.note THEN "dispatch_tool_input_error"
                            ELSE IF o.errors = 1 THEN "dispatch_error"
                            ELSE "dispatched"
         /\ err_code' = IF o.note THEN "TOOL_INPUT_VALIDATION_ERROR"
                        ELSE IF o.errors = 1 THEN "other" ELSE "none"
         /\ \E um \in {"correct", "incorrect", "explained", "none"} :
              /\ (call # "skill" \/ o.note) => um = "none"
              /\ UpdateUserModel(um)
         /\ last_pedagogical_action' =
              IF call = "explain" /\ o.sent = 1 THEN "explained"
              ELSE IF call = "ask_question" /\ o.sent = 1 THEN "asked"
              ELSE last_pedagogical_action
         /\ sent' = sent + o.sent
         /\ errors' = errors + o.errors
         /\ sys_note' = o.note
         /\ skill_llm_calls' = skill_llm_calls + o.llm
         /\ quiz' = CASE o.quiz = "set" -> TRUE
                      [] o.quiz = "clear" -> FALSE
                      [] OTHER -> quiz
    /\ epc' = "done"
    /\ UNCHANGED persistVars
    /\ UNCHANGED <<high_cost_calls, turns, turn_event, turn_quiz, path, llm_calls,
                   dispatches, call, persisted>>

\* _dispatch_tool_call for get_board_state, up to the wait: a fresh request id
\* and future are stored in the table and REQUEST_BOARD_STATE is sent.
RequestBoardState ==
    /\ epc = "dispatch"
    /\ call = "get_board_state"
    /\ pending' = TRUE
    /\ future_done' = FALSE
    /\ waited' = 0
    /\ board_result' = "none"
    /\ epc' = "board_wait"
    /\ UNCHANGED <<inbox_board, high_cost_runs, endVars, traceVars, masteryVars,
                   stored_ctx, last_pedagogical_action>>
    /\ UNCHANGED persistVars
    /\ UNCHANGED <<quiz, high_cost_calls, turns, turn_event, turn_quiz, path,
                   llm_calls, skill_llm_calls, dispatches, call, sent, errors,
                   persisted, sys_note>>

UnchangedInBoardWait ==
    /\ UNCHANGED <<high_cost_runs, endVars, masteryVars, stored_ctx, last_pedagogical_action, hist_assistant,
                   answer_index>>
    /\ UNCHANGED persistVars
    /\ UNCHANGED <<quiz, high_cost_calls, turns, turn_event, turn_quiz, path,
                   llm_calls, skill_llm_calls, dispatches, call, sent,
                   persisted, sys_note>>

\* The client answers REQUEST_BOARD_STATE on the same socket.  The message
\* waits in the socket's receive queue: the only reader is the receive loop
\* of tutor_stream, and that coroutine is the one suspended in the dispatch.
ClientBoardStateResponse ==
    /\ epc = "board_wait"
    /\ ~inbox_board
    /\ inbox_board' = TRUE
    /\ UNCHANGED <<pending, future_done, waited, board_result, epc, errors>>
    /\ UNCHANGED <<turn_outcome, err_code>>
    /\ UnchangedInBoardWait

\* The receive loop of another connection of the process reads a
\* BOARD_STATE_RESPONSE carrying the request id and sets the future's result.
OtherLoopBoardStateResponse ==
    /\ epc = "board_wait"
    /\ pending
    /\ ~future_done
    /\ future_done' = TRUE
    /\ UNCHANGED <<pending, inbox_board, waited, board_result, epc, errors>>
    /\ UNCHANGED <<turn_outcome, err_code>>
    /\ UnchangedInBoardWait

\* TickSeconds pass while the dispatch is suspended in wait_for.
BoardWaitTick ==
    /\ epc = "board_wait"
    /\ ~future_done
    /\ waited < BoardStateTimeout
    /\ waited' = IF waited + TickSeconds < BoardStateTimeout
                  THEN waited + TickSeconds ELSE BoardStateTimeout
    /\ UNCHANGED <<pending, future_done, inbox_board, board_result, epc, errors>>
    /\ UNCHANGED <<turn_outcome, err_code>>
    /\ UnchangedInBoardWait

\* finally: _pending_board_state_requests.pop(request_id, None)
PopKeepsEntry(p) == p
PopPending(p) == FALSE

\* wait_for returns the future's result; the result is assigned to tool_result
\* and nothing further is done with it.
BoardWaitReturn ==
    /\ epc = "board_wait"
    /\ future_done
    /\ board_result' = "state"
    /\ pending' = PopPending(pending)
    /\ epc' = "done"
    /\ UNCHANGED <<future_done, inbox_board, waited, errors>>
    /\ turn_outcome' = "dispatched"
    /\ err_code' = "none"
    /\ UnchangedInBoardWait

\* wait_for raises TimeoutError: BOARD_STATE_TIMEOUT is sent.
BoardWaitTimeout ==
    /\ epc = "board_wait"
    /\ ~future_done
    /\ waited = BoardStateTimeout
    /\ board_result' = "timeout"
    /\ errors' = errors + 1
    /\ pending' = PopPending(pending)
    /\ epc' = "done"
    /\ UNCHANGED <<future_done, inbox_board, waited>>
    /\ turn_outcome' = "dispatch_error"
    /\ err_code' = "BOARD_STATE_TIMEOUT"
    /\ UnchangedInBoardWait

\* wait_for raises another exception: BOARD_STATE_WAIT_ERROR is sent.
BoardWaitError ==
    /\ epc = "board_wait"
    /\ board_result' = "wait_error"
    /\ errors' = errors + 1
    /\ pending' = PopPending(pending)
    /\ epc' = "done"
    /\ UNCHANGED <<future_done, inbox_board, waited>>
    /\ turn_outcome' = "dispatch_error"
    /\ err_code' = "BOARD_STATE_WAIT_ERROR"
    /\ UnchangedInBoardWait

\* Back in the receive loop, the queued BOARD_STATE_RESPONSE is read: its
\* request id is no longer in the table, so it is logged and dropped.
ChatReceiveBoardStateResponse ==
    /\ epc = "idle"
    /\ inbox_board
    /\ inbox_board' = FALSE
    /\ UNCHANGED <<pending, future_done, waited, board_result, epc, errors>>
    /\ UNCHANGED <<turn_outcome, err_code>>
    /\ UnchangedInBoardWait

\* After the turn the loop saves the context:
\* session_manager.update_session_context_convex(convex, ...).  SessionManager
\* has no such method (only update_session_context), so the call raises
\* AttributeError, which is logged; the stored context is not written.
ChatSaveContext ==
    /\ epc = "done"
    /\ epc' = "idle"
    /\ UNCHANGED <<stored_ctx, last_pedagogical_action>>
    /\ UNCHANGED <<high_cost_runs, endVars, masteryVars, pending, inbox_board>>
    /\ UNCHANGED persistVars
    /\ UNCHANGED <<quiz, high_cost_calls, turns>>
    \* the turn is over: its locals and the record of its course are dropped
    /\ turn_event' = "none"
    /\ turn_quiz' = FALSE
    /\ path' = "none"
    /\ llm_calls' = 0
    /\ skill_llm_calls' = 0
    /\ dispatches' = 0
    /\ call' = "none"
    /\ sent' = 0
    /\ errors' = 0
    /\ persisted' = 0
    /\ sys_note' = FALSE
    /\ future_done' = FALSE
    /\ waited' = 0
    /\ board_result' = "none"
    /\ turn_outcome' = "none"
    /\ err_code' = "none"
    /\ hist_assistant' = FALSE
    /\ answer_index' = NoIndex

\* The client sends end_session: session_ended_cleanly is set, the status is
\* read and a task is created when it is null; the reply is sent (or, when
\* anything raised, the END_SESSION_FAIL error); the socket is closed and the
\* loop left.  The finally block then schedules nothing.
ChatEndSession ==
    /\ epc = "idle"
    /\ ~inbox_board
    /\ \E read_ok \in BOOLEAN :
         IF read_ok
         THEN /\ end_seen' = analysis_status
              /\ end_reply' = EndSessionReply(analysis_status)
              /\ IF analysis_status = "null"
                 THEN CreateAnalysisTask
                 ELSE UNCHANGED scheduled
         ELSE /\ end_seen' = "unread"
              /\ end_reply' = "error"
              /\ UNCHANGED scheduled
    /\ PDisconnect(TutorConn)
    /\ epc' = "closed"
    /\ UNCHANGED <<high_cost_runs, boardVars, traceVars, masteryVars, stored_ctx, last_pedagogical_action>>
    /\ UNCHANGED <<quiz, high_cost_calls, turns, turn_event, turn_quiz, path,
                   llm_calls, skill_llm_calls, dispatches, call, sent, errors,
                   persisted, sys_note>>

\* receive_text raises WebSocketDisconnect; the finally block runs.
ChatDisconnect ==
    /\ epc = "idle"
    /\ ~inbox_board
    /\ UNCHANGED <<high_cost_runs, end_seen, end_reply, boardVars, traceVars,
                   masteryVars, stored_ctx, last_pedagogical_action>>
    /\ FinallyUnclean
    /\ PDisconnect(TutorConn)
    /\ epc' = "closed"
    /\ UNCHANGED <<quiz, high_cost_calls, turns, turn_event, turn_quiz, path,
                   llm_calls, skill_llm_calls, dispatches, call, sent, errors,
                   persisted, sys_note>>

NextChat ==
    /\ UNCHANGED <<analyzerVars, wbVars, libVars>>
    /\ \/ ChatConnect
       \/ ChatReceive
       \/ DeterministicEvaluate
       \/ ExecutorLLMCall
       \/ DispatchToolCall
       \/ RequestBoardState
       \/ ClientBoardStateResponse
       \/ OtherLoopBoardStateResponse
       \/ BoardWaitTick
       \/ BoardWaitReturn
       \/ BoardWaitTimeout
       \/ BoardWaitError
       \/ ChatReceiveBoardStateResponse
       \/ ChatSaveContext
       \/ ChatDisconnect

\* The connection-level steps of the websocket together with the analyzer
\* tasks they create.
RunScheduled(w) == w \in scheduled /\ StartWorker(w)

NextEnd ==
    /\ UNCHANGED <<wbVars, libVars>>
    /\ \/ /\ UNCHANGED analyzerVars
          /\ \/ ChatConnect
             \/ ChatEndSession
             \/ ChatDisconnect
       \/ /\ UNCHANGED <<persistVars, execVars, extraVars>>
          /\ \E w \in Workers :
               \/ RunScheduled(w)
               \/ ClaimUpdate(w)
               \/ ClaimCheck(w)
               \/ MarkEnded(w)
               \/ Analyze(w)
               \/ AppendKB(w)
               \/ WriteSuccess(w)
               \/ WriteFailed(w)

(* ======================================================================= *)
(* Learner model: skills/update_user_model.py, core_models.py              *)
(* ======================================================================= *)
Topics == {"A", "B"}
NoConcept == [alpha |-> 0, beta |-> 0, attempts |-> 0, last_interaction_outcome |-> "none",
              confusion_points |-> <<>>, last_accessed |-> 0]
NoTime == 0          \* last_accessed is None
NoDetails == "none"  \* details is None

\* UpdateUserModelArgs.outcome: Literal[...]
ValidOutcomes == {"correct", "incorrect", "unsure", "clarification_needed", "explained"}
\* outcomes a caller may pass: the valid ones and two the Literal rejects
CalledOutcomes == ValidOutcomes \cup {"mastered", "skipped"}
CalledDetails == {NoDetails, "d1", "d2"}

\* UserConceptMastery(): the record of a concept seen for the first time
NewConcept == [alpha |-> 1, beta |-> 1, attempts |-> 0, last_interaction_outcome |-> "none",
               confusion_points |-> <<>>, last_accessed |-> NoTime]

\* UpdateUserModelArgs(**kwargs) accepts the outcome
OutcomeAcceptedAny(outcome) == TRUE
OutcomeAccepted(outcome) == outcome \in ValidOutcomes

\* the branches of update_user_model on the outcome
AlphaAfterAny(a, outcome) == a + 1
AlphaAfter(a, outcome) == IF outcome = "correct" THEN a + 1 ELSE a
BetaAfterDecay(b, outcome) == IF outcome = "incorrect" THEN b + 1
                              ELSE IF outcome = "correct" THEN b - 1 ELSE b
BetaAfter(b, outcome) == IF outcome = "incorrect" THEN b + 1 ELSE b
AttemptsAfter(n, outcome) == IF outcome \in ValidOutcomes THEN n + 1 ELSE n

InSeq(x, q) == \E i \in 1..Len(q) : q[i] = x

ConfusionAfter(q, outcome, details) ==
    IF outcome = "incorrect" /\ details # NoDetails /\ ~InSeq(details, q)
    THEN Append(q, details) ELSE q

\* the concept record after the update (the record is created first when the
\* topic is new)
UpdatedConcept(c, outcome, details, now) ==
    LET c0 == IF c = NoConcept THEN NewConcept ELSE c
    IN [alpha |-> AlphaAfter(c0.alpha, outcome),
        beta |-> BetaAfter(c0.beta, outcome),
        attempts |-> AttemptsAfter(c0.attempts, outcome),
        last_interaction_outcome |-> outcome,
        confusion_points |-> ConfusionAfter(c0.confusion_points, outcome, details),
        last_accessed |-> now]

InitUserModel ==
    /\ um_concepts = [t \in Topics |-> NoConcept]
    /\ um_current_topic = "none"
    /\ um_clock = 1
    /\ um_calls = 0
    /\ um_call = [topic |-> "none", outcome |-> "none", details |-> NoDetails,
                  raised |-> FALSE]

\* One call update_user_model(ctx, topic=, outcome=, details=).  Arguments the
\* model rejects raise ToolInputError before the context is touched.
UpdateUserModelCall ==
    /\ um_calls < MaxUMCalls
    /\ um_calls' = um_calls + 1
    /\ \E topic \in Topics, outcome \in CalledOutcomes, details \in CalledDetails,
          elapsed \in {0, 1} :
         /\ um_clock' = um_clock + elapsed
         /\ IF OutcomeAccepted(outcome)
            THEN /\ um_concepts' =
                      [um_concepts EXCEPT ![topic] =
                          UpdatedConcept(@, outcome, details, um_clock + elapsed)]
                 /\ um_current_topic' = topic
                 /\ um_call' = [topic |-> topic, outcome |-> outcome,
                                details |-> details, raised |-> FALSE]
            ELSE /\ UNCHANGED <<um_concepts, um_current_topic>>
                 /\ um_call' = [topic |-> topic, outcome |-> outcome,
                                details |-> details, raised |-> TRUE]

NextUserModel ==
    /\ UNCHANGED <<analyzerVars, wbVars, persistVars, execVars, extraVars, plannerVars,
                   retryVars, otherLibVars>>
    /\ UpdateUserModelCall

(* ======================================================================= *)
(* Planner: agents/planner_agent.py                                        *)
(* ======================================================================= *)
Concepts == {"A", "B", "C"}
\* possible rows of concept_graph: prereq must be learnt before concept
PossibleEdges == {e \in [prereq : Concepts, concept : Concepts] : e.prereq # e.concept}
DagUnavailable == {"unavailable"}

\* prereq_map: concept -> list of prereqs, built from the rows; its keys are
\* the concepts that occur in the column `concept`
PrereqMapKeys(edges) == {e.concept : e \in edges}
PrereqsOf(c, edges) == {e.prereq : e \in {x \in edges : x.concept = c}}

\* dag_query: [c for c, prereqs in prereq_map.items()
\*             if c not in mastered and all(p in mastered for p in prereqs)]
DagQuery(edges, mastered) ==
    {c \in PrereqMapKeys(edges) : c \notin mastered /\ PrereqsOf(c, edges) \subseteq mastered}

PlannerReplies == {"valid", "not_json", "invalid_objective", "llm_error"}

InitPlanner ==
    /\ pl_pc = "idle"
    /\ pl_edges = {}
    /\ pl_mastered = {}
    /\ pl_candidates = {}
    /\ pl_llm_calls = 0
    /\ pl_focus = FALSE
    /\ pl_fail = "none"

\* determine_session_focus up to the LLM call: the knowledge base is read (a
\* failure is re-raised), the mastered concepts are computed, and dag_query is
\* invoked (a failure leaves next_concepts None).
PlannerQueryDag ==
    /\ pl_pc = "idle"
    /\ \E kb_ok \in BOOLEAN, dag_ok \in BOOLEAN,
          edges \in SUBSET PossibleEdges, mastered \in SUBSET Concepts :
         IF ~kb_ok
         THEN /\ pl_pc' = "raised"
              /\ pl_fail' = "knowledge_base"
              /\ UNCHANGED <<pl_edges, pl_mastered, pl_candidates>>
         ELSE /\ pl_pc' = "llm"
              /\ pl_edges' = edges
              /\ pl_mastered' = mastered
              /\ pl_candidates' = IF dag_ok THEN DagQuery(edges, mastered)
                                            ELSE DagUnavailable
              /\ UNCHANGED pl_fail
    /\ UNCHANGED <<pl_llm_calls, pl_focus>>

\* The single llm.chat call and the handling of its reply: a reply that
\* parses and validates is stored on the context and returned; an LLM error,
\* a reply that is not JSON and a reply that fails
\* FocusObjective.model_validate each raise ValueError at once.
PlannerLLMCall ==
    /\ pl_pc = "llm"
    /\ pl_llm_calls' = pl_llm_calls + 1
    /\ \E reply \in PlannerReplies :
         IF reply = "valid"
         THEN /\ pl_focus' = TRUE
              /\ pl_pc' = "returned"
              /\ UNCHANGED pl_fail
         ELSE /\ pl_pc' = "raised"
              /\ pl_fail' = reply
              /\ UNCHANGED pl_focus
    /\ UNCHANGED <<pl_edges, pl_mastered, pl_candidates>>

NextPlanner ==
    /\ UNCHANGED <<analyzerVars, wbVars, persistVars, execVars, extraVars, umVars,
                   retryVars, otherLibVars>>
    /\ \/ PlannerQueryDag
       \/ PlannerLLMCall

(* ======================================================================= *)
(* Retry wrapper: utils/llm_utils.py                                       *)
(* ======================================================================= *)
temp_increment == 1     \* 0.1, in tenths
SleepSeconds == 1       \* asyncio.sleep(1)
AttemptOutcomes == {"ok", "json", "validation", "other"}

\* if 'temperature' in kwargs and isinstance(kwargs['temperature'], (int, float)):
\*     kwargs['temperature'] += temp_increment
TempUnchanged(has_temp, t) == t
TempAfterFailure(has_temp, t) == IF has_temp THEN t + temp_increment ELSE t

InitRetry ==
    /\ rt_pc = "idle"
    /\ rt_has_temp = FALSE
    /\ rt_temp0 = 0
    /\ rt_temp = 0
    /\ rt_attempts = 0
    /\ rt_failures = 0
    /\ rt_sleeps = 0
    /\ rt_raised = "none"

\* retry_on_json_error(async_func, **kwargs) is called with the default
\* retries, with or without a temperature among the keyword arguments.
RetryCall ==
    /\ rt_pc = "idle"
    /\ rt_pc' = "running"
    /\ \E has_temp \in BOOLEAN, t \in 0..MaxTemp0 :
         /\ (~has_temp) => t = 0
         /\ rt_has_temp' = has_temp
         /\ rt_temp0' = t
         /\ rt_temp' = t
    /\ UNCHANGED <<rt_attempts, rt_failures, rt_sleeps, rt_raised>>

\* One iteration of `for attempt in range(retries)`: the call returns, or
\* raises JSONDecodeError / ValidationError (temperature raised, one second
\* slept, then the next iteration or, after the last one, the re-raise), or
\* raises anything else (re-raised at once).
RetryAttempt ==
    /\ rt_pc = "running"
    /\ rt_attempts' = rt_attempts + 1
    /\ \E o \in AttemptOutcomes :
         CASE o = "ok" ->
                 /\ rt_pc' = "returned"
                 /\ UNCHANGED <<rt_temp, rt_failures, rt_sleeps, rt_raised>>
           [] o = "other" ->
                 /\ rt_pc' = "raised"
                 /\ rt_raised' = "other"
                 /\ UNCHANGED <<rt_temp, rt_failures, rt_sleeps>>
           [] o \in {"json", "validation"} ->
                 /\ rt_failures' = rt_failures + 1
                 /\ rt_temp' = TempAfterFailure(rt_has_temp, rt_temp)
                 /\ rt_sleeps' = rt_sleeps + SleepSeconds
                 /\ IF MoreAttempts(rt_attempts + 1)
                    THEN UNCHANGED <<rt_pc, rt_raised>>
                    ELSE rt_pc' = "raised" /\ rt_raised' = o
    /\ UNCHANGED <<rt_has_temp, rt_temp0>>

NextRetry ==
    /\ UNCHANGED <<analyzerVars, wbVars, persistVars, execVars, extraVars, umVars,
                   plannerVars, otherLibVars>>
    /\ \/ RetryCall
       \/ RetryAttempt

(* ======================================================================= *)
(* Ephemeral GC: routers/whiteboard_ws.py, and the board-summary digest     *)
(* ======================================================================= *)
GCSessions == 1..MaxGCSessions
EphKeys == 1..MaxEphKeys
EphAbsent == -1         \* the key is not in the map
EphMalformed == -2      \* spec or metadata is not a mapping, or expiresAt is
                        \* not a number
EphNoExpiresAt == -3    \* a spec whose metadata has no expiresAt
EphEntries == {EphAbsent, EphMalformed, EphNoExpiresAt} \cup (1..MaxNow)
EmptyEph == [k \in EphKeys |-> EphAbsent]
KeyOrders == {o \in [1..MaxEphKeys -> EphKeys] :
                \A i, j \in 1..MaxEphKeys : i # j => o[i] # o[j]}

\* md.get("expiresAt", 0)
ExpiresAtOf(e) == IF e = EphNoExpiresAt THEN 0 ELSE e

\* for key in list(eph_map.keys()): ... if md.get("expiresAt", 0) < now:
\* del eph_map[key].  An exception (spec.get / md.get on a value that is not
\* a mapping, "<" on a value that is not a number) leaves the loop over the
\* keys of this wrapper; what was deleted before it stays deleted.
RECURSIVE GcScan(_, _, _, _)
GcScan(m, order, i, now) ==
    IF i > MaxEphKeys THEN m
    ELSE LET k == order[i] IN
         IF m[k] = EphAbsent THEN GcScan(m, order, i + 1, now)
         ELSE IF m[k] = EphMalformed THEN m
         ELSE IF ExpiresAtOf(m[k]) < now
              THEN GcScan([m EXCEPT ![k] = EphAbsent], order, i + 1, now)
              ELSE GcScan(m, order, i + 1, now)

\* eph_objs = [eph_map[key] for key in eph_map.keys()] over the document
\* decoded from the Redis snapshot: the entries the digest counts and lists.
DigestKeys(snapshot) == {k \in EphKeys : snapshot[k] # EphAbsent}
EphemeralSummary(s) == DigestKeys(eph_redis[s])

InitGC ==
    /\ gc_docs = {}
    /\ eph = [s \in GCSessions |-> EmptyEph]
    /\ eph_redis = [s \in GCSessions |-> EmptyEph]
    /\ gc_now = 0
    /\ eph_updates = 0
    /\ gc_step = "none"

\* whiteboard_stream, first client of a session: _get_or_create_doc hydrates
\* a new wrapper from the Redis snapshot (an error leaves it empty) and
\* registers it.
GCOpen(s) ==
    /\ s \notin gc_docs
    /\ gc_docs' = gc_docs \cup {s}
    /\ \E ok \in BOOLEAN :
          eph' = [eph EXCEPT ![s] = IF ok THEN eph_redis[s] ELSE EmptyEph]
    /\ gc_step' = "open"
    /\ UNCHANGED <<eph_redis, gc_now, eph_updates>>

\* whiteboard_stream, one received update that writes or removes an entry of
\* the ephemeral map: applied, relayed, then the snapshot of the document is
\* written to Redis (a failure is logged).
GCClientUpdate(s) ==
    /\ s \in gc_docs
    /\ eph_updates < MaxEphUpdates
    /\ eph_updates' = eph_updates + 1
    /\ \E k \in EphKeys, e \in EphEntries, ok \in BOOLEAN :
          /\ eph' = [eph EXCEPT ![s][k] = e]
          /\ eph_redis' = IF ok THEN [eph_redis EXCEPT ![s] = eph'[s]]
                          ELSE eph_redis
    /\ gc_step' = "update"
    /\ UNCHANGED <<gc_docs, gc_now>>

\* whiteboard_stream, finally of the last client: final snapshot, then the
\* wrapper is popped from _docs.
GCClose(s) ==
    /\ s \in gc_docs
    /\ \E ok \in BOOLEAN :
          eph_redis' = IF ok THEN [eph_redis EXCEPT ![s] = eph[s]] ELSE eph_redis
    /\ eph' = [eph EXCEPT ![s] = EmptyEph]
    /\ gc_docs' = gc_docs \ {s}
    /\ gc_step' = "close"
    /\ UNCHANGED <<gc_now, eph_updates>>

\* time passes
GCClock ==
    /\ gc_now < MaxNow
    /\ gc_now' = gc_now + 1
    /\ gc_step' = "clock"
    /\ UNCHANGED <<gc_docs, eph, eph_redis, eph_updates>>

\* One iteration of _gc_ephemeral_loop after the sleep: every wrapper in
\* _docs is scanned, each under its own try/except; nothing is written to
\* Redis and nothing is relayed.
GCTick ==
    /\ \E orders \in [GCSessions -> KeyOrders] :
          eph' = [s \in GCSessions |->
                    IF s \in gc_docs THEN GcScan(eph[s], orders[s], 1, gc_now)
                    ELSE eph[s]]
    /\ gc_step' = "tick"
    /\ UNCHANGED <<gc_docs, eph_redis, gc_now, eph_updates>>

NextGC ==
    /\ UNCHANGED <<analyzerVars, wbVars, persistVars, execVars, extraVars, umVars,
                   plannerVars, retryVars, gridVars, loopVars>>
    /\ \/ \E s \in GCSessions : GCOpen(s)
       \/ \E s \in GCSessions : GCClientUpdate(s)
       \/ \E s \in GCSessions : GCClose(s)
       \/ GCClock
       \/ GCTick

(* ======================================================================= *)
(* Layout allocator: services/layout_allocator.py                          *)
(* ======================================================================= *)
CellWidth == 2          \* cell_w, in model pixels
CellHeight == 2         \* cell_h, in model pixels
NoRegion == 0
RegionIds == 1..MaxRegions
GridRowIdx == 0..(GridRows - 1)
GridColIdx == 0..(GridCols - 1)
EmptyGrid == [r \in GridRowIdx |-> [c \in GridColIdx |-> NoRegion]]
NoCells == {}
Widths == 0..(GridCols * CellWidth + 1)
Heights == 0..(GridRows * CellHeight + 1)
\* anchor boxes in grid cells, as reserve_region derives them from the pixel
\* box of the anchor object with floor and ceil
AnchorCols == (-2)..(GridCols - 1)
AnchorRows == (-2)..(GridRows - 1)
AnchorSpans == 1..2
\* sizes asked for with an anchor: one cell, or one pixel more than the grid
AnchorWidths == {CellWidth, GridCols * CellWidth + 1}
AnchorHeights == {CellHeight, GridRows * CellHeight + 1}
NoAnchor == [col |-> 0, row |-> 0, cols |-> 0, rows |-> 0]
Placements == {"right-of", "below"}
NoCall == [op |-> "none"]

AtLeast(a, b) == IF a > b THEN a ELSE b
\* math.ceil(a / b) for a >= 0, b > 0
CeilDiv(a, b) == (a + b - 1) \div b
FloorDiv(a, b) == a \div b
\* cols_needed = max(1, math.ceil(width / self.cell_w))
CellsNeededFloor(size, cell) == AtLeast(1, FloorDiv(size, cell))
CellsNeeded(size, cell) == AtLeast(1, CeilDiv(size, cell))
\* if cols_needed > self.cols or rows_needed > self.rows: return None
Oversized(cn, rn) == cn > GridCols \/ rn > GridRows

\* list indexing: a negative index counts from the end, an index outside
\* -n .. n-1 raises IndexError
InRange(i, n) == i >= -n /\ i < n
Idx(i, n) == IF i < 0 THEN i + n ELSE i
CellAt(g, r, c) == g[Idx(r, GridRows)][Idx(c, GridCols)]

BlockCells(sc, sr, cn, rn) ==
    {<<r, c>> : r \in sr..(sr + rn - 1), c \in sc..(sc + cn - 1)}

\* _block_free: the cells are visited row by row; the first cell that is
\* occupied ends the scan with False, the first index out of range raises.
BlockFree(g, sc, sr, cn, rn) ==
    LET cells == BlockCells(sc, sr, cn, rn)
        pos(cell) == (cell[1] - sr) * cn + (cell[2] - sc)
        rowpos(cell) == (cell[1] - sr) * cn
        raising == {cell \in cells : ~InRange(cell[1], GridRows)
                                      \/ ~InRange(cell[2], GridCols)}
        raiseAt(cell) == IF ~InRange(cell[1], GridRows) THEN rowpos(cell)
                         ELSE pos(cell)
        occupied == {cell \in cells \ raising : CellAt(g, cell[1], cell[2]) # NoRegion}
    IN  IF raising = {} /\ occupied = {} THEN "free"
        ELSE IF raising # {} /\ \A o \in occupied : \E b \in raising :
                                   raiseAt(b) < pos(o)
             THEN "error"
             ELSE "occupied"

\* _occupy_block on the grid and on _regions
OccupyGrid(g, id, sc, sr, cn, rn) ==
    LET cells == {<<Idx(cell[1], GridRows), Idx(cell[2], GridCols)>> :
                     cell \in BlockCells(sc, sr, cn, rn)}
    IN  [r \in GridRowIdx |-> [c \in GridColIdx |->
            IF <<r, c>> \in cells THEN id ELSE g[r][c]]]

\* _allocate_and_return: (x_px, y_px, alloc_w, alloc_h, region_id)
Allocated(id, col, row, cn, rn) ==
    [kind |-> "region", x |-> col * CellWidth, y |-> row * CellHeight,
     w |-> cn * CellWidth, h |-> rn * CellHeight, id |-> id,
     col |-> col, row |-> row, cn |-> cn, rn |-> rn]
ReturnsNone == [kind |-> "none"]
Raises == [kind |-> "raise"]

\* the flow strategy: row-major scan for the first free block
FlowSpots(g, cn, rn) ==
    {<<r, c>> \in (0..(GridRows - rn)) \X (0..(GridCols - cn)) :
        BlockFree(g, c, r, cn, rn) = "free"}
FirstSpot(spots) ==
    CHOOSE sp \in spots : \A o \in spots :
        sp[1] * GridCols + sp[2] <= o[1] * GridCols + o[2]
ReserveFlow(g, id, cn, rn) ==
    LET spots == FlowSpots(g, cn, rn) IN
    IF spots = {} THEN ReturnsNone
    ELSE LET sp == FirstSpot(spots) IN Allocated(id, sp[2], sp[1], cn, rn)

\* the anchored strategies: only the target spot next to the anchor, moved
\* along the anchor's span, is tried; the first offset whose block is free is
\* taken; an IndexError of _block_free leaves the call.
AnchorOffsets(a, placement, cn, rn) ==
    IF placement = "right-of"
    THEN IF a.col + a.cols + cn <= GridCols /\ a.row + rn <= GridRows
         THEN {o \in 0..(a.rows - 1) : a.row + o + rn <= GridRows}
         ELSE {}
    ELSE IF a.row + a.rows + rn <= GridRows /\ a.col + cn <= GridCols
         THEN {o \in 0..(a.cols - 1) : a.col + o + cn <= GridCols}
         ELSE {}
AnchorCol(a, placement, o) ==
    IF placement = "right-of" THEN a.col + a.cols ELSE a.col + o
AnchorRow(a, placement, o) ==
    IF placement = "right-of" THEN a.row + o ELSE a.row + a.rows
ReserveAnchor(g, id, cn, rn, a, placement) ==
    LET offs == AnchorOffsets(a, placement, cn, rn)
        res(o) == BlockFree(g, AnchorCol(a, placement, o),
                            AnchorRow(a, placement, o), cn, rn)
        decided == {o \in offs : res(o) # "occupied"}
    IN  IF decided = {} THEN ReturnsNone
        ELSE LET o == CHOOSE x \in decided : \A y \in decided : x <= y IN
             IF res(o) = "error" THEN Raises
             ELSE Allocated(id, AnchorCol(a, placement, o),
                            AnchorRow(a, placement, o), cn, rn)

\* _GridAllocator.reserve
Reserve(g, id, width, height, strategy, a, placement) ==
    LET cn == CellsNeeded(width, CellWidth)
        rn == CellsNeeded(height, CellHeight)
    IN  IF Oversized(cn, rn) THEN ReturnsNone
        ELSE IF strategy = "anchor" THEN ReserveAnchor(g, id, cn, rn, a, placement)
        ELSE ReserveFlow(g, id, cn, rn)

\* _GridAllocator.release on the grid: every recorded cell is set to None
ReleaseAll(g, cells) == EmptyGrid
ReleaseGrid(g, cells) ==
    LET freed == {<<Idx(cell[1], GridRows), Idx(cell[2], GridCols)>> : cell \in cells}
    IN  [r \in GridRowIdx |-> [c \in GridColIdx |->
            IF <<r, c>> \in freed THEN NoRegion ELSE g[r][c]]]

InitGrid ==
    /\ gr_exists = FALSE
    /\ gr_grid = EmptyGrid
    /\ gr_regions = [id \in RegionIds |-> NoCells]
    /\ gr_next_id = 1
    /\ gr_last = NoCall

\* the requested box does not fit into the pixels of the whole grid
ExceedsGrid(width, height) ==
    width > GridCols * CellWidth \/ height > GridRows * CellHeight

\* What the call leaves behind: the grid and _regions when a region was
\* allocated, nothing otherwise.
Reserved(width, height, strategy, res) ==
    /\ gr_last' = [op |-> "reserve", strategy |-> strategy,
                   oversized |-> ExceedsGrid(width, height),
                   cn |-> CellsNeeded(width, CellWidth),
                   rn |-> CellsNeeded(height, CellHeight),
                   result |-> res]
    /\ IF res.kind = "region"
       THEN /\ gr_grid' = OccupyGrid(gr_grid, res.id, res.col, res.row,
                                     res.cn, res.rn)
            /\ gr_regions' = [gr_regions EXCEPT ![res.id] =
                                 BlockCells(res.col, res.row, res.cn, res.rn)]
            /\ gr_next_id' = gr_next_id + 1
       ELSE UNCHANGED <<gr_grid, gr_regions, gr_next_id>>

\* reserve_region(session_id, requested_width, requested_height, "flow").
\* No step of the call suspends (_get_allocator, the free lock and reserve
\* have no await that yields), so the call is one step also when several
\* calls are in flight.
ReserveRegionFlow ==
    /\ gr_next_id <= MaxRegions
    /\ gr_exists' = TRUE
    /\ \E width \in Widths, height \in Heights :
          Reserved(width, height, "flow",
                   Reserve(gr_grid, gr_next_id, width, height, "flow", NoAnchor,
                           "below"))

\* reserve_region(..., strategy="anchor", anchor_object_bbox, anchor_placement)
ReserveRegionAnchor ==
    /\ gr_next_id <= MaxRegions
    /\ gr_exists' = TRUE
    /\ \E width \in AnchorWidths, height \in AnchorHeights,
          acol \in AnchorCols, arow \in AnchorRows,
          acols \in AnchorSpans, arows \in AnchorSpans,
          placement \in Placements :
          Reserved(width, height, "anchor",
                   Reserve(gr_grid, gr_next_id, width, height, "anchor",
                           [col |-> acol, row |-> arow, cols |-> acols,
                            rows |-> arows], placement))

\* release_region(session_id, region_id) with any region id, issued or not
ReleaseRegion ==
    /\ gr_exists' = TRUE
    /\ \E rid \in RegionIds :
          /\ gr_grid' = ReleaseGrid(gr_grid, gr_regions[rid])
          /\ gr_regions' = [gr_regions EXCEPT ![rid] = NoCells]
          /\ gr_last' = [op |-> "release", rid |-> rid,
                         cells |-> gr_regions[rid]]
    /\ UNCHANGED gr_next_id

NextGrid ==
    /\ UNCHANGED <<analyzerVars, wbVars, persistVars, execVars, extraVars, umVars,
                   plannerVars, retryVars, gcVars, loopVars>>
    /\ \/ ReserveRegionFlow
       \/ ReserveRegionAnchor
       \/ ReleaseRegion

(* ======================================================================= *)
(* Focus objective at the top of the main loop: routers/tutor_ws.py         *)
(* ======================================================================= *)
InitLoop ==
    /\ fl_pc = "connect"
    /\ fl_runs = 0
    /\ fl_since_msg = 0
    /\ fl_msgs = 0
    /\ fl_errors = 0

\* The handler reaches the loop with the context it loaded: the context may
\* already hold a focus objective.
LoopEnter ==
    /\ fl_pc = "connect"
    /\ \E has_objective \in BOOLEAN : pl_focus' = has_objective
    /\ fl_pc' = "top"
    /\ UNCHANGED <<fl_runs, fl_since_msg, fl_msgs, fl_errors>>
    /\ UNCHANGED <<pl_pc, pl_edges, pl_mastered, pl_candidates, pl_llm_calls, pl_fail>>

\* Top of `while True`: `if not ctx.current_focus_objective` starts
\* determine_session_focus, otherwise the loop goes on to ws.receive_text().
LoopCheckObjective ==
    /\ fl_pc = "top"
    /\ IF ~pl_focus
       THEN /\ fl_runs < MaxPlannerRuns
            /\ fl_pc' = "planning"
            /\ fl_runs' = fl_runs + 1
            /\ fl_since_msg' = fl_since_msg + 1
            /\ pl_pc' = "idle"
            /\ pl_fail' = "none"
            /\ pl_llm_calls' = 0
       ELSE /\ fl_pc' = "receive"
            /\ UNCHANGED <<fl_runs, fl_since_msg, pl_pc, pl_fail, pl_llm_calls>>
    /\ UNCHANGED <<fl_msgs, fl_errors, pl_edges, pl_mastered, pl_candidates, pl_focus>>

\* determine_session_focus runs inside the loop's inner try
LoopPlannerStep ==
    /\ fl_pc = "planning"
    /\ \/ PlannerQueryDag
       \/ PlannerLLMCall
    /\ UNCHANGED loopVars

\* The planner returned: the objective is stored on the context and
\* session_manager.update_session_context_convex is called, a method that
\* SessionManager does not have: the AttributeError is caught by the same
\* `except Exception as plan_err`, a "Planning Error" is sent and the loop
\* continues.
LoopPlannerReturned ==
    /\ fl_pc = "planning"
    /\ pl_pc = "returned"
    /\ fl_errors' = fl_errors + 1
    /\ fl_pc' = "top"
    /\ UNCHANGED <<fl_runs, fl_since_msg, fl_msgs, plannerVars>>

\* The planner raised: `except Exception as plan_err` sends a "Planning
\* Error" and executes `continue`, which leads back to the top of
\* `while True` and not to ws.receive_text().
LoopPlannerRaised ==
    /\ fl_pc = "planning"
    /\ pl_pc = "raised"
    /\ fl_errors' = fl_errors + 1
    /\ fl_pc' = "top"
    /\ UNCHANGED <<fl_runs, fl_since_msg, fl_msgs, plannerVars>>

\* ws.receive_text(): a client message is received and handled, after which
\* the loop is at its top again, or the client disconnects and the loop ends.
LoopReceive ==
    /\ fl_pc = "receive"
    /\ \/ /\ fl_msgs < MaxLoopMsgs
          /\ fl_msgs' = fl_msgs + 1
          /\ fl_since_msg' = 0
          /\ fl_pc' = "top"
       \/ /\ fl_pc' = "closed"
          /\ UNCHANGED <<fl_msgs, fl_since_msg>>
    /\ UNCHANGED <<fl_runs, fl_errors, plannerVars>>

NextLoop ==
    /\ UNCHANGED <<analyzerVars, wbVars, persistVars, execVars, extraVars, umVars,
                   retryVars, gcVars, gridVars>>
    /\ \/ LoopEnter
       \/ LoopCheckObjective
       \/ LoopPlannerStep
       \/ LoopPlannerReturned
       \/ LoopPlannerRaised
       \/ LoopReceive

Init ==
    /\ InitAnalyzer /\ InitWB /\ InitPersist /\ InitExec
    /\ InitUserModel /\ InitPlanner /\ InitRetry /\ InitGC /\ InitGrid
    /\ InitLoop

SpecLoop == Init /\ [][NextLoop]_vars

SpecGrid == Init /\ [][NextGrid]_vars

SpecGC == Init /\ [][NextGC]_vars

SpecRetry == Init /\ [][NextRetry]_vars

SpecPlanner == Init /\ [][NextPlanner]_vars

SpecUserModel == Init /\ [][NextUserModel]_vars

SpecAnalyzer == Init /\ [][NextAnalyzer]_vars

\* A task that asyncio has started runs on until it returns: every step of
\* a started worker is eventually taken.  Starting a task is not forced.
WorkerStep(w) ==
    /\ UNCHANGED <<wbVars, persistVars, execVars, extraVars, libVars>>
    /\ \/ ClaimUpdate(w)
       \/ ClaimCheck(w)
       \/ MarkEnded(w)
       \/ Analyze(w)
       \/ AppendKB(w)
       \/ WriteSuccess(w)
       \/ WriteFailed(w)
SpecAnalyzerLive ==
    Init /\ [][NextAnalyzer]_vars /\ \A w \in Workers : WF_vars(WorkerStep(w))

SpecWB == Init /\ [][NextWB]_vars

SpecPersist == Init /\ [][NextPersist]_vars

SpecChat == Init /\ [][NextChat]_vars

SpecEnd == Init /\ [][NextEnd]_vars

(* ----------------------------- claims ---------------------------------- *)

\* C1: among the analyzer workers started for one session exactly one
\* proceeds past the claim; every other worker is a no-op: it does not set
\* ended_at, run the analysis or write a final analysis_status.  So at most
\* one worker ever shows any of these effects.
Proceeded(w) ==
    \/ can_proceed[w]
    \/ set_ended[w]
    \/ ran_analysis[w]
    \/ final_written[w] # "none"

C1_SingleClaimant ==
    Cardinality({w \in Workers : Proceeded(w)}) <= 1

\* C2: analysis_status only moves null -> processing, processing -> success,
\* processing -> failed; a final value is never overwritten by another value.
C2_StatusAutomaton ==
    [][analysis_status' # analysis_status =>
          <<analysis_status, analysis_status'>> \in
             { <<"null", "processing">>,
               <<"processing", "success">>,
               <<"processing", "failed">> }]_vars

\* Helpers for the whiteboard claims.
Range(f) == {f[i] : i \in DOMAIN f}
InOrder(sq) == \A i, j \in DOMAIN sq : i < j => sq[i] < sq[j]
InCritical(c) == cpc[c] \in {"broadcast", "persist"}

\* the handler that has applied an update holds the lock of its own wrapper
C5_HoldsOwnLock == \A c \in Conns : InCritical(c) => lock_holder[conn_doc[c]] = c
\* updates are applied to a wrapper in the order in which they were received
\* (update ids are handed out in receive order)
C5_ReceiveOrder == \A d \in Docs : InOrder(applied[d])
\* an update is relayed only after it has been applied
C5_RelayAfterApply ==
    \A p \in Conns : \A id \in delivered[p] : \E d \in Docs : id \in Range(applied[d])
\* the lock serialises the handlers of the session: no two of them are
\* between apply and the end of persist at the same time
C5_Serialised == Cardinality({c \in Conns : InCritical(c)}) <= 1

\* C5: every update received for the session is applied to the server
\* document while the session's lock is held, updates are applied in receive
\* order, and an update is relayed to the peers only after it has been
\* applied.
C5_ApplyUnderSessionLock ==
    /\ C5_Serialised
    /\ C5_HoldsOwnLock
    /\ C5_ReceiveOrder
    /\ C5_RelayAfterApply

\* C6: one authoritative in-memory document per session: every wrapper that
\* has a connected client is the registered document of the session (so all
\* connected clients share one document, and it stays registered while a
\* client is connected).
C6_OneRegisteredDoc ==
    \A d \in Docs : connections[d] # {} => docs_reg = d

\* C7: after an inbound update has been processed no object is held in a
\* server document, or in the persisted snapshot, with metadata.source
\* "assistant".
C7_NoAssistantFromLearner ==
    /\ \A d \in Docs : \A k \in Keys : ydoc[d][k] # "assistant"
    /\ \A k \in Keys : redis[k] # "assistant"

\* C3: the session_messages rows of a session, ordered by turn_no, carry the
\* turn numbers 1, 2, 3, ... with no gap and no duplicate, whatever user and
\* assistant messages were persisted, over reconnects and failed inserts.
C3_TurnNumbersContiguous ==
    /\ TurnNos(rows) = 1..Cardinality(rows)
    /\ \A r1, r2 \in rows : r1.turn_no = r2.turn_no => r1 = r2

\* rows of both roles are stored, one connection has hydrated its counter
\* from them, and another still holds a counter that an insert has left
\* behind (its insert failed or was refused)
C3_Witness ==
    /\ Cardinality(rows) >= 2
    /\ \E r \in rows : r.role = "user"
    /\ \E r \in rows : r.role = "assistant"
    /\ \E c1, c2 \in ChatConns :
          /\ ppc[c1] = "open" /\ latest_turn_no[c1] = Cardinality(rows)
          /\ ppc[c2] = "open" /\ latest_turn_no[c2] < Cardinality(rows)

\* C4: every persisted assistant row with a non-null
\* whiteboard_snapshot_index has a whiteboard_snapshots row with that index,
\* and the index equals the row's turn_no.
C4_SnapshotForAssistantRow ==
    \A r \in rows :
        (r.role = "assistant" /\ r.snap # NoSnapshot) =>
            (r.snap \in snapshots /\ r.snap = r.turn_no)

C4_Witness ==
    \E r \in rows : r.role = "assistant" /\ r.snap # NoSnapshot /\ r.turn_no > 1

\* C8: every executor turn, on the LLM path or on the deterministic answer
\* path, ends with exactly one assistant message sent and persisted.
C8_OneAssistantMessagePerTurn ==
    epc = "done" => (sent = 1 /\ persisted = 1)

\* C9 as stated: in every executor turn the LLM is called exactly once and
\* exactly one tool call is dispatched.
C9_ExactlyOneCallAndDispatch ==
    epc = "done" => (llm_calls = 1 /\ dispatches = 1)

\* C9, amended: on the LLM path the executor calls the LLM at least once and
\* at most `retries` times and dispatches at most one tool call, which it
\* does only after an LLM call; on the deterministic answer path it calls the
\* LLM zero times and dispatches nothing.
C9_BoundedCallsOneDispatch ==
    /\ llm_calls <= retries
    /\ dispatches <= 1
    /\ path = "det" => (llm_calls = 0 /\ dispatches = 0)
    /\ dispatches = 1 => (path = "llm" /\ llm_calls >= 1)
    /\ (epc = "done" /\ path = "llm") => llm_calls >= 1
    /\ epc = "dispatch" => dispatches = 1

C9_Witness ==
    epc = "done" /\ path = "llm" /\ llm_calls = retries /\ dispatches = 1

\* C10: a turn started by an answer event while a quiz question is pending
\* runs on the deterministic branch, makes no LLM call, and leaves the
\* high-cost-call counter as it was.
C10_AnswerBypassesLLM ==
    (turn_event = "answer" /\ turn_quiz /\ epc \in {"det", "llm", "dispatch", "done"}) =>
        /\ path = "det"
        /\ epc \in {"det", "done"}
        /\ llm_calls = 0
        /\ skill_llm_calls = 0
        /\ dispatches = 0
        /\ high_cost_calls = 0

C10_Witness ==
    /\ epc = "done" /\ turn_event = "answer" /\ turn_quiz
    /\ sent = 1 /\ ~quiz

C12_ScheduleOnlyWhenNull ==
    /\ [][scheduled' # scheduled => analysis_status = "null"]_vars
    /\ [](end_seen \in {"processing", "success", "failed"} => end_reply = "already")

\* C13: when the client has answered REQUEST_BOARD_STATE with the request id
\* before the timeout, the tool call does not time out.
C13_ReplyCompletesFuture ==
    board_result = "timeout" => ~inbox_board

\* C14: a get_board_state request waits at most 20 s, an expired wait has
\* reported an error, and the pending-request table holds an entry only while
\* the request is still waiting.
C14_BoundedWaitAndCleanup ==
    /\ waited <= BoardStateTimeout
    /\ pending => epc = "board_wait"
    /\ (epc = "done" /\ call = "get_board_state" /\ board_result = "timeout") => errors >= 1

C14_Witness ==
    /\ epc = "done"
    /\ call = "get_board_state"
    /\ board_result = "timeout"
    /\ waited = BoardStateTimeout
    /\ ~pending

\* C15: when the LLM names a tool that is not in the merged registry, nothing
\* is dispatched, a system correction is appended to the history, and the
\* history holds the invalid assistant JSON before it.
C15_UnknownToolCorrected ==
    (epc = "done" /\ turn_outcome = "unknown_tool") =>
        /\ dispatches = 0
        /\ sys_note
        /\ hist_assistant

\* C16: when a dispatched skill raises ToolInputError, a system feedback
\* message is appended to the history and no error envelope is sent.
C16_ToolInputErrorOnlyToLLM ==
    (epc = "done" /\ turn_outcome = "dispatch_tool_input_error") =>
        /\ sys_note
        /\ errors = 0

\* C17: an answer event whose answer_index lies outside the option range of
\* the pending question ends with ToolInputError and changes neither
\* current_quiz_question nor the concept's alpha, beta and attempts.
C17_OutOfRangeLeavesState ==
    [][(epc = "det" /\ answer_index' \in AnswerIndexes
            /\ ~(0 <= answer_index' /\ answer_index' < NumOptions)) =>
          /\ turn_outcome' = "tool_input_error"
          /\ quiz' = quiz
          /\ alpha' = alpha
          /\ beta' = beta
          /\ attempts' = attempts]_vars

C17_Witness ==
    /\ epc = "done"
    /\ path = "det"
    /\ answer_index = NumOptions
    /\ turn_outcome = "tool_input_error"
    /\ quiz
    /\ errors = 1

\* C18: for an answer event with an out-of-range answer_index on a pending
\* question the error envelope carries the code TOOL_INPUT_VALIDATION_ERROR.
C18_OutOfRangeErrorCode ==
    (epc = "done" /\ path = "det" /\ turn_outcome = "tool_input_error") =>
        err_code = "TOOL_INPUT_VALIDATION_ERROR"

\* C19: after an unhandled exception in the receive loop an error envelope
\* has been sent and the connection is still open for the next message.
C19_LoopSurvivesUnhandledError ==
    err_code = "UNHANDLED_WS_LOOP_ERROR" => epc # "closed"

\* C20: whenever the loop waits for the next inbound message, the stored
\* context is the lean form of the live context.
C20_ContextPersistedAfterTurn ==
    epc = "idle" => stored_ctx = LeanDict

\* C21: a pending quiz question is cleared only by the evaluation of an
\* answer event on the deterministic path.
C21_QuizClearedOnlyByAnswer ==
    [][(quiz /\ ~quiz') => (epc = "det" /\ turn_outcome' = "evaluated")]_vars

\* C22: last_pedagogical_action is unset or one of explained, asked,
\* evaluated, remediated.
C22_PedagogicalActionTag ==
    last_pedagogical_action \in {"none", "explained", "asked", "evaluated", "remediated"}

\* the record a step's call was applied to, before the call
PriorConcept(t) == IF um_concepts[t] = NoConcept THEN NewConcept ELSE um_concepts[t]

\* C23: correct adds one to alpha and to attempts and leaves beta; incorrect
\* adds one to beta and to attempts and leaves alpha; explained,
\* clarification_needed and unsure add one to attempts only; a concept seen
\* for the first time starts from alpha = 1, beta = 1, attempts = 0.
C23_UpdateUserModelArithmetic ==
    [][um_calls' = um_calls + 1 /\ ~um_call'.raised =>
        LET t == um_call'.topic
            o == um_call'.outcome
            before == PriorConcept(t)
            after == um_concepts'[t]
        IN /\ (um_concepts[t] = NoConcept) =>
                  (before.alpha = 1 /\ before.beta = 1 /\ before.attempts = 0)
           /\ o = "correct" =>
                  /\ after.alpha = before.alpha + 1
                  /\ after.beta = before.beta
                  /\ after.attempts = before.attempts + 1
           /\ o = "incorrect" =>
                  /\ after.beta = before.beta + 1
                  /\ after.alpha = before.alpha
                  /\ after.attempts = before.attempts + 1
           /\ o \in {"explained", "clarification_needed", "unsure"} =>
                  /\ after.attempts = before.attempts + 1
                  /\ after.alpha = before.alpha
                  /\ after.beta = before.beta]_vars

C23_Witness ==
    /\ um_call.outcome = "explained"
    /\ ~um_call.raised
    /\ um_concepts[um_call.topic].alpha = 2
    /\ um_concepts[um_call.topic].beta = 2
    /\ um_concepts[um_call.topic].attempts = 3

\* C24: a call with an outcome outside the five valid ones changes nothing:
\* no concept record is created or modified and current_topic stays.
C24_UnknownOutcomeNoChange ==
    [][um_calls' = um_calls + 1 /\ um_call'.outcome \notin ValidOutcomes =>
          /\ um_concepts' = um_concepts
          /\ um_current_topic' = um_current_topic]_vars

C24_Witness ==
    /\ um_call.outcome = "mastered"
    /\ um_call.raised
    /\ um_concepts[um_call.topic] = NoConcept
    /\ \E t \in Topics : um_concepts[t] # NoConcept

\* C25: every concept record has alpha >= 1 and beta >= 1 (so that
\* 0 < alpha < alpha + beta), and no update lowers alpha, beta or attempts or
\* moves last_accessed backwards.
C25_MasteryBoundsAndMonotone ==
    /\ [](\A t \in Topics : um_concepts[t] # NoConcept =>
            /\ um_concepts[t].alpha >= 1
            /\ um_concepts[t].beta >= 1
            /\ 0 < um_concepts[t].alpha
            /\ um_concepts[t].alpha < um_concepts[t].alpha + um_concepts[t].beta)
    /\ [][\A t \in Topics : um_concepts[t] # NoConcept =>
            /\ um_concepts'[t] # NoConcept
            /\ um_concepts'[t].alpha >= um_concepts[t].alpha
            /\ um_concepts'[t].beta >= um_concepts[t].beta
            /\ um_concepts'[t].attempts >= um_concepts[t].attempts
            /\ um_concepts'[t].last_accessed >= um_concepts[t].last_accessed]_vars

C25_Witness ==
    \E t \in Topics :
        /\ um_concepts[t].alpha = 2
        /\ um_concepts[t].beta = 3
        /\ um_concepts[t].attempts = 3
        /\ um_concepts[t].last_accessed > 1

\* the concepts of the prerequisite graph: every concept a row names
GraphConcepts(edges) == {e.concept : e \in edges} \cup {e.prereq : e \in edges}

\* C26: the candidates are exactly the concepts of the graph that are not
\* mastered and all of whose prerequisites are mastered, concepts without
\* prerequisites included.
C26_NextLearnable ==
    (pl_pc # "idle" /\ pl_candidates # DagUnavailable) =>
        pl_candidates =
            {c \in GraphConcepts(pl_edges) :
                c \notin pl_mastered /\ PrereqsOf(c, pl_edges) \subseteq pl_mastered}

\* C27: a run that raised because the reply did not validate has called the
\* LLM three times, and the objective is stored only by a run whose reply
\* validated.
C27_PlannerRetriesValidation ==
    /\ (pl_pc = "raised" /\ pl_fail \in {"not_json", "invalid_objective"}) =>
            pl_llm_calls = 3
    /\ pl_focus => pl_pc = "returned"

\* C28 as stated: at most 3 attempts; every JSON-decoding or validation
\* failure raises the temperature by the increment and is followed by a 1 s
\* wait; the error is re-raised after the last attempt; any other exception
\* is re-raised at once.
C28_RetryAlwaysEscalates ==
    /\ rt_attempts <= 3
    /\ rt_failures >= 1 =>
          (rt_has_temp /\ rt_temp = rt_temp0 + rt_failures * temp_increment)
    /\ rt_sleeps = rt_failures * SleepSeconds
    /\ (rt_pc = "raised" /\ rt_raised \in {"json", "validation"}) => rt_attempts = 3
    /\ (rt_pc = "raised" /\ rt_raised = "other") => rt_attempts = rt_failures + 1

\* C28, amended: at most 3 attempts; every JSON-decoding or validation
\* failure is followed by a 1 s wait (the last one too) and raises the
\* temperature by the increment when the call carries a numeric temperature,
\* and otherwise changes no argument; the error is re-raised after the third
\* failure; any other exception is re-raised at once.
C28_RetryBounded ==
    /\ rt_attempts <= retries
    /\ rt_has_temp => rt_temp = rt_temp0 + rt_failures * temp_increment
    /\ ~rt_has_temp => rt_temp = rt_temp0
    /\ rt_sleeps = rt_failures * SleepSeconds
    /\ (rt_pc = "raised" /\ rt_raised \in {"json", "validation"}) =>
            (rt_attempts = retries /\ rt_failures = retries)
    /\ (rt_pc = "raised" /\ rt_raised = "other") => rt_attempts = rt_failures + 1
    /\ rt_pc = "running" => rt_attempts = rt_failures

C28_Witness ==
    /\ rt_pc = "raised"
    /\ rt_raised = "validation"
    /\ rt_attempts = retries
    /\ rt_has_temp
    /\ rt_temp0 = 7
    /\ rt_temp = 10
    /\ rt_sleeps = 3

\* C29: a reply that is not valid JSON or does not validate as a tool call
\* is retried, and when the turn is given up a system message reminding of
\* the required shape has been appended to the history.
C29_InvalidReplyRetried ==
    (epc = "done" /\ turn_outcome \in {"not_json", "unknown_tool", "json_error"}) =>
        /\ llm_calls = retries
        /\ sys_note

\* a handler leaves the persist step of an applied update
C30_PersistStep(c) == cpc[c] = "persist" /\ cpc'[c] = "recv"
\* the session's entry is popped from the registry
C30_DropStep == docs_reg # NoDoc /\ docs_reg' = NoDoc
\* the store either kept its value (the write was rejected) or holds objs
C30_Stored(objs) == redis' = objs \/ redis' = redis

\* C30: after every update that the server applies to the session's document
\* the value stored under the session's key is the state of the server
\* document including that update, and when the session's document is dropped
\* from the registry the value stored is the final state of that document
\* (a write that the store rejects leaves the stored value as it was).
C30_SnapshotFollowsDocument ==
    [][ /\ \A c \in Conns :
              C30_PersistStep(c) => C30_Stored(ydoc'[conn_doc[c]])
        /\ C30_DropStep => C30_Stored(ydoc'[docs_reg]) ]_vars

\* an entry whose expiresAt (0 when it carries none) is earlier than the
\* current time
C31_Expired(e, now) == e \in {EphNoExpiresAt} \cup (1..MaxNow) /\ ExpiresAtOf(e) < now
\* the GC tick removed key k of session s
C31_Deleted(s, k) == eph[s][k] # EphAbsent /\ eph'[s][k] = EphAbsent

\* C31: a GC tick deletes from the ephemeral map of every live document
\* exactly the entries whose expiresAt is earlier than the current time, and
\* never an entry that has not expired.
C31_GcDeletesExactlyExpired ==
    [][gc_step' = "tick" =>
         \A s \in gc_docs : \A k \in EphKeys :
            C31_Deleted(s, k) <=> C31_Expired(eph[s][k], gc_now)]_vars

\* C32: once a GC tick has run, an ephemeral object whose expiresAt has
\* passed is not counted or listed by the board-summary digest.
C32_ExpiredAbsentFromDigest ==
    [][gc_step' = "tick" =>
         \A s \in gc_docs : \A k \in EphKeys :
            C31_Expired(eph[s][k], gc_now) => k \notin EphemeralSummary(s)']_vars

\* C33: reserve_region with a width or height that needs more cells than the
\* grid has columns or rows returns None and leaves the grid as it was: no
\* cell becomes occupied and no region id is recorded.
C33_OversizedReturnsNone ==
    [][(gr_last'.op = "reserve" /\ gr_last'.oversized) =>
          /\ gr_last'.result.kind = "none"
          /\ gr_grid' = gr_grid
          /\ gr_regions' = gr_regions
          /\ gr_next_id' = gr_next_id]_vars

\* an oversized request was refused on a grid that holds a region
C33_Witness ==
    /\ gr_last.op = "reserve"
    /\ gr_last.oversized
    /\ gr_last.result.kind = "none"
    /\ \E id \in RegionIds : gr_regions[id] # NoCells

\* the grid cells that the recorded cells of a region denote
C34_GridCells(cells) ==
    {<<Idx(cell[1], GridRows), Idx(cell[2], GridCols)>> : cell \in cells}
C34_Pos(cell) == cell[1] * GridCols + cell[2]
C34_Cols(cells) == Cardinality({cell[2] : cell \in cells})
C34_Rows(cells) == Cardinality({cell[1] : cell \in cells})
\* release_region frees the cells held by the region and no others, and an
\* unknown region id changes nothing
C34_FreesExactly ==
    gr_last'.op = "release" =>
          /\ \A r \in GridRowIdx, c \in GridColIdx :
                gr_grid'[r][c] = IF gr_grid[r][c] = gr_last'.rid
                                 THEN NoRegion ELSE gr_grid[r][c]
          /\ C34_GridCells(gr_last'.cells) =
                {cell \in GridRowIdx \X GridColIdx :
                    gr_grid[cell[1]][cell[2]] = gr_last'.rid}
          /\ \A id \in RegionIds \ {gr_last'.rid} : gr_regions'[id] = gr_regions[id]
          /\ gr_regions'[gr_last'.rid] = NoCells
\* a flow reservation that follows the release of a region and asks for the
\* size of that region
C34_SameSizeAfterRelease ==
    /\ gr_last.op = "release"
    /\ gr_last.cells # NoCells
    /\ gr_last'.op = "reserve"
    /\ gr_last'.strategy = "flow"
    /\ gr_last'.cn = C34_Cols(gr_last.cells)
    /\ gr_last'.rn = C34_Rows(gr_last.cells)
C34_NewRegion ==
    /\ gr_last'.result.kind = "region"
    /\ gr_last'.result.id # gr_last.rid
C34_ResultCells ==
    BlockCells(gr_last'.result.col, gr_last'.result.row, gr_last'.result.cn,
               gr_last'.result.rn)

C36_Live == {id \in RegionIds : gr_regions[id] # NoCells}
\* every grid cell is held by at most one live region, and _grid agrees with
\* _regions
C36_CellsOwnedOnce ==
    /\ \A i, j \in C36_Live :
          i # j => C34_GridCells(gr_regions[i]) \cap C34_GridCells(gr_regions[j]) = {}
    /\ \A r \in GridRowIdx, c \in GridColIdx :
          /\ gr_grid[r][c] # NoRegion =>
                <<r, c>> \in C34_GridCells(gr_regions[gr_grid[r][c]])
          /\ \A id \in C36_Live :
                <<r, c>> \in C34_GridCells(gr_regions[id]) => gr_grid[r][c] = id
\* the rectangle returned by the last reservation lies inside the grid
C36_ReturnedInsideGrid ==
    (gr_last.op = "reserve" /\ gr_last.result.kind = "region") =>
        /\ gr_last.result.x >= 0
        /\ gr_last.result.y >= 0
        /\ gr_last.result.x + gr_last.result.w <= GridCols * CellWidth
        /\ gr_last.result.y + gr_last.result.h <= GridRows * CellHeight
\* the rectangles of two live regions have no cell in common
C36_RectanglesDisjoint ==
    \A i, j \in C36_Live : i # j => gr_regions[i] \cap gr_regions[j] = {}

\* C36: at all times each grid cell belongs to at most one live region,
\* every region returned by reserve_region lies entirely inside the grid, and
\* the rectangles of two live regions do not overlap, whatever the
\* interleaving of the reserve_region and release_region calls of the session.
C36_GridInvariant ==
    /\ C36_CellsOwnedOnce
    /\ C36_ReturnedInsideGrid
    /\ C36_RectanglesDisjoint

\* C35: every front-end display tool name (explain, ask_question, message,
\* feedback, error, end_session) that the LLM chooses passes the validation
\* of ToolCall and is handed to the dispatch, which wraps it into a response
\* envelope.
C35_DisplayToolsAccepted ==
    (epc = "done" /\ call \in DirectDispatchNames) =>
        /\ turn_outcome # "unknown_tool"
        /\ dispatches >= 1

\* C37: whenever no _persist_assistant_message call is under way, every
\* whiteboard snapshot row belongs to a persisted assistant message: its
\* snapshot_index is the turn_no of an assistant row that refers to it (also
\* after an insert has failed part-way through a turn).
C37_SnapshotBelongsToMessage ==
    (\A c \in ChatConns : ppc[c] # "asst_msg") =>
        \A i \in snapshots :
            \E r \in rows : r.role = "assistant" /\ r.turn_no = i /\ r.snap = i

\* handler c relays the update it received to peer p
C38_Relays(c, p) ==
    /\ cpc[c] = "broadcast"
    /\ cpc'[c] = "persist"
    /\ cur[c].id \notin delivered[p]
    /\ cur[c].id \in delivered'[p]

\* C38: no client is sent, in a relayed update, an object written by a
\* learner client with metadata.source "assistant": what the peers are sent
\* agrees with the sanitised server document.
C38_RelayedUpdateSanitised ==
    [][\A c, p \in Conns :
          C38_Relays(c, p) =>
             /\ cur[c].src # "assistant"
             /\ cur[c].src = ydoc[conn_doc[c]][cur[c].key]]_vars

\* C39: a session whose analysis_status has become processing eventually
\* reaches success or failed, whether the analysis succeeded or raised.
C39_ProcessingResolves ==
    (analysis_status = "processing") ~> (analysis_status \in {"success", "failed"})

\* C40: a planner failure is followed by a wait for the next client message:
\* the planner is invoked at most once per received client message, never
\* again without new client input.
C40_PlannerOncePerMessage == fl_since_msg <= 1

====
